---- MODULE Spec2Model ----
(***************************************************************************)
(* Tapeworm: the Agent orchestration loop (tapeworm/src/agent/agent.ts),   *)
(* the Conversation (conversation/conversation.ts), the Message model      *)
(* (conversation/message.ts) and ToolCall (tool/toolCall.ts).              *)
(*                                                                         *)
(* JavaScript runs one handler at a time; an async function gives up       *)
(* control only at an await.  Every action below is the code that runs     *)
(* between two awaits of Agent.invoke / Agent._runTool.                    *)
(***************************************************************************)
EXTENDS Integers, Sequences, FiniteSets, TLC

(***************************************************************************)
(* Bounds of the model.                                                    *)
(***************************************************************************)
\* Invocations of Agent.invoke in one run.
MaxInvokes == 2
\* Calls of Model.invoke in one run.
MaxModelCalls == 3
\* Tool calls the model requests in one run, over all its turns.
MaxToolCalls == 2
\* Tool calls in the one model turn of a run whose sequence numbers vary.
MaxBatch == 3
\* Tool calls in one model turn whose names vary freely.
MaxNamed == 2
\* Changes the host makes to the Agent's tool list in one run.
MaxMutations == 1
\* Tool calls a model adapter builds for one Message.
MaxBuilt == 3

(***************************************************************************)
(* Values.                                                                 *)
(***************************************************************************)
\* systemPrompt?: string -- the value of an absent system prompt.
NoPrompt == "<undefined>"
\* ToolCall.sequence: number | undefined -- the value of an absent sequence.
SeqUndefined == -1

Prompts == {"You are an agent."}
Queries == {"hello"}

\* The compaction strategies an Agent is built with: the shipped default
\* (identity), a strategy that keeps the last KeepLast messages by slicing,
\* and a strategy that throws once the history outgrows StrictLimit.
Managers == {"default", "lastN", "strict"}
KeepLast == 2
StrictLimit == 4

\* The callback argument of invoke: omitted, a callback of the caller, or a
\* callback of the caller that throws.  "agent" is the Agent's configured
\* callback.
NoCallback == "<undefined>"
Callbacks == {NoCallback, "given", "throwing"}
\* The hosts of the model: one that relies on the Agent's callback and at
\* times passes a throwing one, and one that passes its own callback to
\* every invoke.
PlainHost == {NoCallback, "throwing"}
OwnCallbackHost == {"given"}

\* Names a model may put in a tool call.  "ghost" is registered on no Agent;
\* "toString" is registered on no Agent either but is a property every plain
\* JavaScript object inherits from Object.prototype.
CallNames == {"echo", "boom", "circ", "ghost", "toString"}
ObjectPrototypeKeys == {"toString"}

\* Tools (Tool objects): echo returns {received: input}; boom throws
\* new Error("boom"); circ throws an error object that refers to itself.
EchoTool == [name |-> "echo", kind |-> "echo"]
BoomTool == [name |-> "boom", kind |-> "boom"]
CircTool == [name |-> "circ", kind |-> "circ"]
NoTools == << >>
AllTools == <<EchoTool, BoomTool, CircTool>>

\* The Agents of the model: every choice of system prompt and tool list with
\* the default strategy, and a fully equipped Agent with each other strategy.
AgentConfigs ==
    {[systemPrompt |-> p, tools |-> t, conversationManager |-> "default",
      host |-> IF p = NoPrompt THEN OwnCallbackHost ELSE PlainHost] :
        p \in Prompts \cup {NoPrompt}, t \in {NoTools, AllTools}}
    \cup {[systemPrompt |-> p, tools |-> AllTools, conversationManager |-> m,
           host |-> PlainHost] :
             p \in Prompts, m \in Managers \ {"default"}}

\* Array.prototype.sort of the JavaScript engine the build runs on.
Engines == {"timsort", "insertion"}

(***************************************************************************)
(* Message model: conversation/message.ts.                                 *)
(***************************************************************************)
\* MessageComponentType
TypeContent == "content"
TypeThinking == "thinking"
TypeToolCall == "toolcall"
TypeToolResult == "toolresult"

\* Content.of(text)
ContentOf(text) == [type |-> TypeContent, text |-> text]

\* new ToolCall(sequence, name, parameters, type, id)
ToolCallOf(sequence, name, parameters, id) ==
    [type |-> TypeToolCall, sequence |-> sequence, name |-> name,
     parameters |-> parameters, calltype |-> "function", id |-> id]

ToolResultOfSequence(toolCall, toolResult) ==
    [type |-> TypeToolResult, id |-> toolCall.sequence,
     toolName |-> toolCall.name, toolResult |-> toolResult]
\* ToolResult.of(toolCall, toolResult)
ToolResultOf(toolCall, toolResult) ==
    [type |-> TypeToolResult, id |-> toolCall.id, toolName |-> toolCall.name,
     toolResult |-> toolResult]

\* Message.builder().role(role).<one component>.build()
MessageOf(role, components) == [role |-> role, content |-> components]

\* Message.filter(kind): the components of the requested kind, in order, as
\* a new sequence.
Filter(message, kind) ==
    SelectSeq(message.content, LAMBDA c : c.type = kind)

ThinkingOfContent(thought) == [type |-> TypeContent, thought |-> thought]
\* Thinking.of(thought)
ThinkingOf(thought) == [type |-> TypeThinking, thought |-> thought]

\* private _role!: string and private _content!: MessageComponent[] before
\* anything was assigned to them.
NoRole == "<undefined>"
NoArray == 0
\* An argument that is undefined.
UndefinedText == "<undefined>"
UndefinedComponent == [type |-> "<undefined>"]

(***************************************************************************)
(* Proxy server values: tapeworm_proxy_server/src/index.ts.                *)
(***************************************************************************)
\* rateLimiter?: TapewormRateLimiter when the server was built without one.
NoLimiter == [kind |-> "<undefined>"]
\* Date.now() counts milliseconds.
MsPerSecond == 1000
\* Date.now() when the server starts.
StartOfClock == 5000

(***************************************************************************)
(* ToolCallBuilder: tool/toolCall.ts.  Strings that the code computes are  *)
(* sequences of characters.                                                *)
(***************************************************************************)
\* An id that was not supplied (undefined).
NoId == <<"<undefined>">>
\* Ids a provider supplies.
SuppliedIds == {<<"c", "1">>, <<"c", "2">>}
\* Values of Math.random(), as the digits of their fraction in base 36:
\* two values that differ in the sixth digit only, 0.5 and 0.
Randoms == {<<"a", "b", "c", "d", "e", "f">>, <<"a", "b", "c", "d", "e", "g">>,
            <<"i">>, << >>}

\* (random + 1).toString(36)
ToString36(random) ==
    IF random = << >> THEN <<"1">> ELSE <<"1", ".">> \o random

\* String.prototype.slice(start, end) with 0 <= start <= end.
Slice(str, start, end) ==
    SubSeq(str, start + 1, IF end < Len(str) THEN end ELSE Len(str))

\* (Math.random() + 1).toString(36).slice(2, 7)
GeneratedId(random) == Slice(ToString36(random), 2, 7)

\* ToolCall.builder()
BuilderNew == [sequence |-> SeqUndefined, name |-> "", id |-> NoId]
\* ToolCallBuilder.sequence(sequence), .name(name)
BuilderSequence(builder, sequence) == [builder EXCEPT !.sequence = sequence]
BuilderName(builder, name) == [builder EXCEPT !.name = name]
\* ToolCallBuilder.id(id): an undefined id is ignored.
BuilderId(builder, id) ==
    IF id # NoId THEN [builder EXCEPT !.id = id] ELSE builder
\* ToolCallBuilder.build(): sequence defaults to 0, a missing id is generated.
BuilderBuild(builder, parameters, random) ==
    ToolCallOf(IF builder.sequence = SeqUndefined THEN 0 ELSE builder.sequence,
               builder.name, parameters,
               IF builder.id = NoId THEN GeneratedId(random) ELSE builder.id)

(***************************************************************************)
(* Values a tool returns or throws, and JSON.stringify of a thrown value.  *)
(***************************************************************************)
ValueOf(v) == [kind |-> "value", v |-> v]
\* new Error(message): name, message and stack are not enumerable.
PlainError(message) ==
    [kind |-> "error", name |-> "Error", message |-> message,
     ownName |-> FALSE, circular |-> FALSE]
\* An error object holding a reference to itself (e.self = e).
CircularError(message) ==
    [kind |-> "error", name |-> "Error", message |-> message,
     ownName |-> FALSE, circular |-> TRUE]
\* TypeError raised by reading .execute of undefined.
TypeErrorOf(message) ==
    [kind |-> "error", name |-> "TypeError", message |-> message,
     ownName |-> FALSE, circular |-> FALSE]
\* new ToolNotFoundError(message): this.name is assigned in the constructor.
ToolNotFoundError(message) ==
    [kind |-> "error", name |-> "ToolNotFoundError", message |-> message,
     ownName |-> TRUE, circular |-> FALSE]
\* ConversationManagerNotImplementedError, thrown by a compaction strategy.
ManagerError(message) ==
    [kind |-> "error", name |-> "ConversationManagerNotImplemented",
     message |-> message, ownName |-> TRUE, circular |-> FALSE]
\* The error of a failed Model.invoke and of a throwing callback.
ModelError == PlainError("model adapter failed")
CallbackError == PlainError("callback failed")
NoError == [kind |-> "none"]

\* JSON.stringify(error) throws a TypeError on a circular structure.
StringifyThrows(error) == error.circular
\* JSON.stringify(error) otherwise: the own enumerable properties only.
JSONStringify(error) ==
    [kind |-> "string",
     text |-> IF error.ownName THEN "{\"name\":\"" \o error.name \o "\"}"
              ELSE "{}"]
StringifyError == TypeErrorOf("Converting circular structure to JSON")

(***************************************************************************)
(* Ordering a turn's tool calls: agent.ts, toolCalls.sort(comparator).     *)
(***************************************************************************)
\* a.sequence ?? 0
SeqKey(toolCall) ==
    IF toolCall.sequence = SeqUndefined THEN 0 ELSE toolCall.sequence

\* The comparator handed to sort: -1 when a is before b, else 1 (never 0).
Compare(a, b) == IF SeqKey(a) < SeqKey(b) THEN -1 ELSE 1

Reverse(s) == [i \in 1..Len(s) |-> s[Len(s) + 1 - i]]

\* Insertion sort as engines without a stable sort run it on short arrays:
\* an element moves left past every earlier element x with
\* comparator(x, element) > 0.
RECURSIVE InsertFromRight(_, _)
InsertFromRight(sorted, element) ==
    IF sorted = << >> THEN <<element>>
    ELSE IF Compare(sorted[Len(sorted)], element) > 0
         THEN Append(InsertFromRight(SubSeq(sorted, 1, Len(sorted) - 1), element),
                     sorted[Len(sorted)])
         ELSE Append(sorted, element)

RECURSIVE InsertionSort(_)
InsertionSort(s) ==
    IF s = << >> THEN << >>
    ELSE InsertFromRight(InsertionSort(SubSeq(s, 1, Len(s) - 1)), s[Len(s)])

\* TimSort on an array shorter than its minimum run: the leading run is
\* found with comparator(next, previous), reversed when it descends, and the
\* remaining elements are placed by binary insertion with
\* comparator(pivot, middle).
RECURSIVE RunLength(_, _, _)
RunLength(s, idx, descending) ==
    IF idx > Len(s) THEN idx - 1
    ELSE LET order == Compare(s[idx], s[idx - 1])
         IN  IF descending
             THEN IF order >= 0 THEN idx - 1 ELSE RunLength(s, idx + 1, descending)
             ELSE IF order < 0 THEN idx - 1 ELSE RunLength(s, idx + 1, descending)

RECURSIVE BinarySearch(_, _, _, _)
BinarySearch(s, pivot, left, right) ==
    IF left >= right THEN left
    ELSE LET mid == left + ((right - left) \div 2)
         IN  IF Compare(pivot, s[mid]) < 0
             THEN BinarySearch(s, pivot, left, mid)
             ELSE BinarySearch(s, pivot, mid + 1, right)

RECURSIVE BinaryInsertionSort(_, _)
BinaryInsertionSort(s, start) ==
    IF start > Len(s) THEN s
    ELSE LET pivot == s[start]
             at == BinarySearch(s, pivot, 1, start)
             placed == SubSeq(s, 1, at - 1) \o <<pivot>> \o SubSeq(s, at, start - 1)
                       \o SubSeq(s, start + 1, Len(s))
         IN  BinaryInsertionSort(placed, start + 1)

TimSort(s) ==
    IF Len(s) < 2 THEN s
    ELSE LET descending == Compare(s[2], s[1]) < 0
             run == RunLength(s, 3, descending)
             made == IF descending
                     THEN Reverse(SubSeq(s, 1, run)) \o SubSeq(s, run + 1, Len(s))
                     ELSE s
         IN  BinaryInsertionSort(made, run + 1)

\* toolCalls.sort((a, b) => ...) on the given engine.
SortSkipped(toolCalls, engine) == toolCalls
SortToolCalls(toolCalls, engine) ==
    IF engine = "timsort" THEN TimSort(toolCalls) ELSE InsertionSort(toolCalls)

(***************************************************************************)
(* State.                                                                  *)
(***************************************************************************)
VARIABLES
    systemPrompt,         \* Agent.systemPrompt, NoPrompt when not configured
    tools,                \* Agent.tools
    conversationManager,  \* Agent.conversationManager
    conversation,         \* Agent.conversation: [defined, messages, manager]
    heap,                 \* the Message[] arrays; conversation.messages and
                          \* ModelRequest.messages are references into it
    toolNameToIndexMap,   \* Agent.toolNameToIndexMap: [defined, index]
    invocations,          \* one record per call of Agent.invoke: its locals
    requests,             \* the ModelRequests the model adapter received
    executions,           \* the calls of Tool.execute, in order
    callbackLog,          \* the calls of the response callback, in order
    built,                \* the ToolCalls a model adapter has built with
                          \* ToolCallBuilder for the Message it assembles
    mutations,            \* changes made to Agent.tools after the build
    host,                 \* the callback arguments the host passes to invoke
    appendLog,            \* the calls of Conversation.append, in order, each
                          \* with the calls of compact it made
    inflight,             \* asynchronous operations started and not settled
    configureLog,         \* the calls of ConversationManager.configure
    messageBuilder,       \* a MessageBuilder: [_role, _content]
    messageArrays,        \* the MessageComponent[] arrays; _content and
                          \* Message.content are references into it
    builtMessages,        \* the Messages build() has returned, in order
    builderLog,           \* the calls made on the MessageBuilder, in order
    filterLog,            \* the calls of Message.filter, in order
    ollamaCalls,          \* the calls of OllamaModel.invoke, in order: the
                          \* request, the body posted, where the call is
                          \* suspended and how it settled
    rateLimiter,          \* TapewormProxyServer.rateLimiter, with its fields
    clock,                \* what Date.now() returns, in milliseconds
    proxyLog              \* the calls of TapewormProxyServer.invokeSync

\* The state of an Agent and of its host.
agentVars == <<systemPrompt, tools, conversationManager, conversation, heap,
               toolNameToIndexMap, invocations, requests, executions,
               callbackLog, appendLog, host, mutations, built, inflight,
               configureLog>>

\* The state of a MessageBuilder and of the Messages it built.
componentVars ==
    <<messageBuilder, messageArrays, builtMessages, builderLog, filterLog>>

\* The state of the library objects outside the Agent.
\* The state of an OllamaModel's calls.
ollamaVars == <<ollamaCalls>>

\* The state of a TapewormProxyServer and of the clock.
proxyVars == <<rateLimiter, clock, proxyLog>>

libraryVars == <<componentVars, ollamaVars, proxyVars>>

vars == <<agentVars, libraryVars>>

\* The mutable part of the state as one value, threaded through the
\* statements of a handler; thrown is the exception in flight, if any.
World ==
    [conversation |-> conversation, heap |-> heap, map |-> toolNameToIndexMap,
     requests |-> requests, executions |-> executions,
     callbackLog |-> callbackLog, appendLog |-> appendLog,
     configureLog |-> configureLog, inflight |-> inflight, thrown |-> NoError]

Threw(w) == w.thrown # NoError

\* this.conversation.messages, read through the reference.
History(w) ==
    IF w.conversation.defined THEN w.heap[w.conversation.messages] ELSE << >>

(***************************************************************************)
(* Conversation: conversation/conversation.ts.                             *)
(***************************************************************************)
\* Agent.model, the model the Agent was constructed with.
AgentModel == "model"

\* One call of manager.configure(model); no strategy of the model throws
\* from it.
Configure(manager, model) == [manager |-> manager, model |-> model]

\* manager.compact(messages) throws.
CompactThrows(manager, messages) ==
    manager = "strict" /\ Len(messages) > StrictLimit

\* manager.compact(messages) returns a new array (messages.slice(-KeepLast)).
CompactAllocates(manager) == manager = "lastN"

\* The list manager.compact(messages) returns.
CompactKeepsOneMore(manager, messages) ==
    IF manager = "lastN" /\ Len(messages) > KeepLast + 1
    THEN SubSeq(messages, Len(messages) - KeepLast, Len(messages))
    ELSE messages
Compact(manager, messages) ==
    IF manager = "lastN" /\ Len(messages) > KeepLast
    THEN SubSeq(messages, Len(messages) - KeepLast + 1, Len(messages))
    ELSE messages

\* One call of manager.compact(messages): its argument and what came back.
CompactCall(manager, messages) ==
    [manager |-> manager, input |-> messages,
     threw |-> CompactThrows(manager, messages),
     output |-> IF CompactThrows(manager, messages) THEN << >>
                ELSE Compact(manager, messages)]

\* Conversation.append(message): push, then this.messages = compact(...).
ConversationAppendNoStore(w, message) ==
    LET ref == w.conversation.messages
        pushed == Append(w.heap[ref], message)
        call == CompactCall(w.conversation.manager, pushed)
    IN  [w EXCEPT !.heap = [w.heap EXCEPT ![ref] = pushed],
                  !.thrown = IF call.threw THEN ManagerError("history too long")
                             ELSE NoError,
                  !.appendLog =
                      Append(w.appendLog,
                             [before |-> w.heap[ref], message |-> message,
                              calls |-> <<call>>, stored |-> pushed])]
ConversationAppendUnshift(w, message) ==
    LET ref == w.conversation.messages
        pushed == <<message>> \o w.heap[ref]
        call == CompactCall(w.conversation.manager, pushed)
    IN  [w EXCEPT !.heap = [w.heap EXCEPT ![ref] = pushed],
                  !.thrown = IF call.threw THEN ManagerError("history too long")
                             ELSE NoError,
                  !.appendLog =
                      Append(w.appendLog,
                             [before |-> w.heap[ref], message |-> message,
                              calls |-> <<call>>, stored |-> pushed])]
ConversationAppend(w, message) ==
    LET ref == w.conversation.messages
        pushed == Append(w.heap[ref], message)
        heap1 == [w.heap EXCEPT ![ref] = pushed]
        manager == w.conversation.manager
        call == CompactCall(manager, pushed)
        done == IF call.threw
                THEN [w EXCEPT !.heap = heap1,
                               !.thrown = ManagerError("history too long")]
                ELSE IF CompactAllocates(manager)
                THEN [w EXCEPT !.heap = Append(heap1, call.output),
                               !.conversation.messages = Len(heap1) + 1]
                ELSE [w EXCEPT !.heap = heap1]
    IN  [done EXCEPT !.appendLog =
                         Append(w.appendLog,
                                [before |-> w.heap[ref], message |-> message,
                                 calls |-> <<call>>, stored |-> History(done)])]

(***************************************************************************)
(* Agent: agent/agent.ts.                                                  *)
(***************************************************************************)
\* invoke, lines 125-138: create and seed the Conversation, append the query.
SeedUserOnly(w, query) ==
    ConversationAppend(
        IF w.conversation.defined THEN w
        ELSE [w EXCEPT !.heap = Append(w.heap, << >>),
                       !.conversation =
                           [defined |-> TRUE, messages |-> Len(w.heap) + 1,
                            manager |-> conversationManager]],
        MessageOf("user", <<ContentOf(query)>>))
SeedNewConversation(w, query) ==
    LET created ==
            [w EXCEPT !.heap = Append(w.heap, << >>),
                      !.conversation =
                          [defined |-> TRUE, messages |-> Len(w.heap) + 1,
                           manager |-> conversationManager]]
        seeded ==
            IF systemPrompt # NoPrompt /\ ~w.conversation.defined
            THEN ConversationAppend(created,
                     MessageOf("system", <<ContentOf(systemPrompt)>>))
            ELSE created
    IN  IF Threw(seeded) THEN seeded
        ELSE ConversationAppend(seeded, MessageOf("user", <<ContentOf(query)>>))
SeedEveryInvoke(w, query) ==
    LET created ==
            IF w.conversation.defined THEN w
            ELSE [w EXCEPT !.heap = Append(w.heap, << >>),
                           !.conversation =
                               [defined |-> TRUE, messages |-> Len(w.heap) + 1,
                                manager |-> conversationManager]]
        seeded ==
            IF systemPrompt # NoPrompt
            THEN ConversationAppend(created,
                     MessageOf("system", <<ContentOf(systemPrompt)>>))
            ELSE created
    IN  IF Threw(seeded) THEN seeded
        ELSE ConversationAppend(seeded, MessageOf("user", <<ContentOf(query)>>))
SeedReconfigures(w, query) ==
    LET created ==
            IF w.conversation.defined THEN w
            ELSE [w EXCEPT !.heap = Append(w.heap, << >>),
                           !.conversation =
                               [defined |-> TRUE, messages |-> Len(w.heap) + 1,
                                manager |-> conversationManager],
                           !.configureLog =
                               Append(w.configureLog,
                                      Configure(conversationManager, AgentModel))]
        seeded ==
            IF ~w.conversation.defined /\ systemPrompt # NoPrompt
            THEN ConversationAppend(created,
                     MessageOf("system", <<ContentOf(systemPrompt)>>))
            ELSE created
    IN  IF Threw(seeded) THEN seeded
        ELSE ConversationAppend(seeded, MessageOf("user", <<ContentOf(query)>>))
SeedOwnWhenBusy(w, query) ==
    LET created ==
            IF w.conversation.defined /\ w.inflight = {} THEN w
            ELSE [w EXCEPT !.heap = Append(w.heap, << >>),
                           !.conversation =
                               [defined |-> TRUE, messages |-> Len(w.heap) + 1,
                                manager |-> conversationManager]]
        seeded ==
            IF created # w /\ systemPrompt # NoPrompt
            THEN ConversationAppend(created,
                     MessageOf("system", <<ContentOf(systemPrompt)>>))
            ELSE created
    IN  IF Threw(seeded) THEN seeded
        ELSE ConversationAppend(seeded, MessageOf("user", <<ContentOf(query)>>))
Seed(w, query) ==
    LET created ==
            IF w.conversation.defined THEN w
            ELSE [w EXCEPT !.heap = Append(w.heap, << >>),
                           !.conversation =
                               [defined |-> TRUE, messages |-> Len(w.heap) + 1,
                                manager |-> conversationManager]]
        seeded ==
            IF ~w.conversation.defined /\ systemPrompt # NoPrompt
            THEN ConversationAppend(created,
                     MessageOf("system", <<ContentOf(systemPrompt)>>))
            ELSE created
    IN  IF Threw(seeded) THEN seeded
        ELSE ConversationAppend(seeded, MessageOf("user", <<ContentOf(query)>>))

\* _runQuery up to its await: the request is built from the current
\* messages reference and the tool list, and model.invoke is called.
RunQueryLastOnly(w, i) ==
    [w EXCEPT !.requests =
                  Append(w.requests,
                         [inv |-> i, messages |-> w.conversation.messages,
                          atCall |-> SubSeq(History(w), Len(History(w)),
                                            Len(History(w))),
                          tools |-> tools]),
              !.inflight =
                  w.inflight \cup {[inv |-> i, op |-> "model",
                                    n |-> Len(w.requests) + 1]}]
RunQuery(w, i) ==
    [w EXCEPT !.requests =
                  Append(w.requests,
                         [inv |-> i, messages |-> w.conversation.messages,
                          atCall |-> History(w), tools |-> tools]),
              !.inflight =
                  w.inflight \cup {[inv |-> i, op |-> "model",
                                    n |-> Len(w.requests) + 1]}]

\* generateToolNameToIndexMap: built once; a later tool of the same name
\* overwrites the earlier index.
GenerateToolNameToIndexMapFirstWins(map) ==
    IF map.defined THEN map
    ELSE [defined |-> TRUE,
          index |-> [name \in {tools[k].name : k \in 1..Len(tools)} |->
                        CHOOSE k \in 1..Len(tools) :
                            /\ tools[k].name = name
                            /\ \A j \in 1..Len(tools) :
                                   tools[j].name = name => j >= k]]
GenerateToolNameToIndexMap(map) ==
    IF map.defined THEN map
    ELSE [defined |-> TRUE,
          index |-> [name \in {tools[k].name : k \in 1..Len(tools)} |->
                        CHOOSE k \in 1..Len(tools) :
                            /\ tools[k].name = name
                            /\ \A j \in 1..Len(tools) :
                                   tools[j].name = name => j <= k]]

\* toolCall.name in this.toolNameToIndexMap: own and inherited properties.
HasProperty(map, name) ==
    name \in DOMAIN map.index \/ name \in ObjectPrototypeKeys

\* this.tools[this.toolNameToIndexMap[name]] as a position in tools, 0 when
\* the element is undefined (the map value of an inherited property is a
\* function, which is no index of the array).
LookupToolOffByOne(map, name) ==
    IF name \in DOMAIN map.index /\ map.index[name] - 1 >= 1
    THEN map.index[name] - 1 ELSE 0
LookupTool(map, name) ==
    IF name \in DOMAIN map.index /\ map.index[name] <= Len(tools)
    THEN map.index[name] ELSE 0

\* The catch block of _runTool, lines 215-223.
CatchBlockRethrow(w, toolCall, error) == [w EXCEPT !.thrown = error]
CatchBlockNotifies(w, toolCall, error) ==
    IF StringifyThrows(error)
    THEN [w EXCEPT !.thrown = StringifyError]
    ELSE LET message ==
                 MessageOf("tool", <<ToolResultOf(toolCall, JSONStringify(error))>>)
         IN  ConversationAppend(
                 [w EXCEPT !.callbackLog =
                               Append(w.callbackLog,
                                      [inv |-> 0, callback |-> "agent",
                                       message |-> message,
                                       history |-> History(w)])],
                 message)
CatchBlock(w, toolCall, error) ==
    IF StringifyThrows(error)
    THEN [w EXCEPT !.thrown = StringifyError]
    ELSE ConversationAppend(w,
             MessageOf("tool", <<ToolResultOf(toolCall, JSONStringify(error))>>))

\* _runTool up to its await (or to its end when it does not await): the
\* world after it and whether tool.execute is now in flight.
RunTool(w, i, toolCall) ==
    LET map == GenerateToolNameToIndexMap(w.map)
        w1 == [w EXCEPT !.map = map]
        found == LookupTool(map, toolCall.name)
    IN  IF ~HasProperty(map, toolCall.name)
        THEN [w |-> ConversationAppend(w1,
                        MessageOf("tool",
                            <<ToolResultOf(toolCall,
                                  ToolNotFoundError(
                                      "Agent does not have a tool with this name."))>>)),
              awaiting |-> FALSE, tool |-> 0]
        ELSE IF found = 0
        THEN [w |-> CatchBlock(w1, toolCall,
                        TypeErrorOf("Cannot read properties of undefined")),
              awaiting |-> FALSE, tool |-> 0]
        ELSE [w |-> [w1 EXCEPT
                        !.executions =
                            Append(w1.executions,
                                   [inv |-> i, tool |-> found,
                                    input |-> toolCall.parameters,
                                    id |-> toolCall.id]),
                        !.inflight =
                            w1.inflight \cup {[inv |-> i, op |-> "tool",
                                               n |-> Len(w1.executions) + 1]}],
              awaiting |-> TRUE, tool |-> found]

\* What tool.execute(input) settles with: a value, or a thrown error.
Execute(tool, input) ==
    IF tool.kind = "echo" THEN ValueOf([received |-> input])
    ELSE IF tool.kind = "boom" THEN PlainError("boom")
    ELSE CircularError("loop")

\* _runTool after its await, lines 207-223: the try block's append, or the
\* catch block; an exception of the append inside try is caught as well.
SettleToolNamesTool(w, toolCall, outcome) ==
    LET tool == tools[LookupTool(w.map, toolCall.name)]
        named == [toolCall EXCEPT !.name = tool.name]
    IN  IF outcome.kind = "value"
        THEN ConversationAppend(w,
                 MessageOf("tool", <<ToolResultOf(named, outcome)>>))
        ELSE CatchBlock(w, named, outcome)
SettleTool(w, toolCall, outcome) ==
    IF outcome.kind = "value"
    THEN LET appended == ConversationAppend(w,
                 MessageOf("tool", <<ToolResultOf(toolCall, outcome)>>))
         IN  IF Threw(appended)
             THEN CatchBlock([appended EXCEPT !.thrown = NoError], toolCall,
                             appended.thrown)
             ELSE appended
    ELSE CatchBlock(w, toolCall, outcome)

\* The locals of one call of invoke and where it is suspended.
Settled == {"returned", "rejected"}

CallbackInEffectAgentOnly(given) == "agent"
\* callback: (m: Message) => void = this.callback
CallbackInEffect(given) == IF given = NoCallback THEN "agent" ELSE given

NewInvocation(query, callback) ==
    [query |-> query, given |-> callback,
     callback |-> CallbackInEffect(callback), pc |-> "start",
     toolCalls |-> << >>, cursor |-> 0, tool |-> 0, n |-> 0, error |-> NoError]

\* An exception leaves invoke: the promise it returned is rejected.
Reject(w, l) ==
    [w |-> [w EXCEPT !.thrown = NoError],
     l |-> [l EXCEPT !.pc = "rejected", !.error = w.thrown]]

\* while (!doneWithCalls): the next _runQuery, suspended at its await.
NextQuery(w, l, i) ==
    [w |-> RunQuery(w, i),
     l |-> [l EXCEPT !.pc = "awaitModel", !.n = Len(w.requests) + 1]]

\* for (let toolCall of toolCalls) await this._runTool(toolCall): iteration k
\* up to the next await.
NextTool(w, l, i, k) ==
    LET r == RunTool(w, i, l.toolCalls[k])
    IN  IF Threw(r.w) THEN Reject(r.w, [l EXCEPT !.cursor = k])
        ELSE [w |-> r.w,
              l |-> [l EXCEPT !.cursor = k, !.tool = r.tool,
                              !.n = Len(r.w.executions),
                              !.pc = IF r.awaiting THEN "awaitTool"
                                     ELSE "awaitRunTool"]]

\* doneWithCalls after a response: true unless it holds a tool call.
DoneWithCallsAlways(toolCalls) == TRUE
DoneWithCalls(toolCalls) == Len(toolCalls) = 0

\* invoke, lines 144-161, after the model's Message arrived: callback,
\* append, filter, sort, and the first tool call or the return.
AfterResponseSortsStored(w, l, i, response, engine) ==
    LET called == [w EXCEPT !.callbackLog =
                       Append(w.callbackLog,
                              [inv |-> i, callback |-> l.callback,
                               message |-> response,
                               history |-> History(w)])]
        toolCalls == Filter(response, TypeToolCall)
        sorted == SortToolCalls(toolCalls, engine)
        others == SelectSeq(response.content, LAMBDA c : c.type # TypeToolCall)
        appended == ConversationAppend(called,
                        [response EXCEPT !.content = others \o sorted])
    IN  IF l.callback = "throwing"
        THEN Reject([called EXCEPT !.thrown = CallbackError], l)
        ELSE IF Threw(appended) THEN Reject(appended, l)
        ELSE IF DoneWithCalls(toolCalls)
        THEN [w |-> appended, l |-> [l EXCEPT !.pc = "returned"]]
        ELSE NextTool(appended, [l EXCEPT !.toolCalls = sorted], i, 1)
AfterResponse(w, l, i, response, engine) ==
    LET called == [w EXCEPT !.callbackLog =
                       Append(w.callbackLog,
                              [inv |-> i, callback |-> l.callback,
                               message |-> response,
                               history |-> History(w)])]
        appended == ConversationAppend(called, response)
        toolCalls == Filter(response, TypeToolCall)
    IN  IF l.callback = "throwing"
        THEN Reject([called EXCEPT !.thrown = CallbackError], l)
        ELSE IF Threw(appended) THEN Reject(appended, l)
        ELSE IF DoneWithCalls(toolCalls)
        THEN [w |-> appended, l |-> [l EXCEPT !.pc = "returned"]]
        ELSE NextTool(appended,
                      [l EXCEPT !.toolCalls = SortToolCalls(toolCalls, engine)],
                      i, 1)

\* The loop after _runTool returned: the next tool call, else the next query.
AfterToolEager(w, l, i) == NextQuery(w, l, i)
AfterTool(w, l, i) ==
    IF l.cursor < Len(l.toolCalls) THEN NextTool(w, l, i, l.cursor + 1)
    ELSE NextQuery(w, l, i)

(***************************************************************************)
(* The model adapter's answers (the environment).                          *)
(***************************************************************************)
SeqValues == {SeqUndefined, 0, 1, 2}

\* Tool calls the model has requested so far in this run.
RECURSIVE ToolCallsIn(_)
ToolCallsIn(log) ==
    IF log = << >> THEN 0
    ELSE Len(Filter(log[Len(log)].message, TypeToolCall))
         + ToolCallsIn(SubSeq(log, 1, Len(log) - 1))

\* The k-th tool call of the answer to request n.
CallOf(n, k, sequence, name) == ToolCallOf(sequence, name, k, 10 * n + k)

\* Batches of two or more tool calls to "echo" in every emission order of
\* sequence numbers.
OrderBatches(n, size) ==
    {[k \in 1..size |-> CallOf(n, k, f[k], "echo")] : f \in [1..size -> SeqValues]}

\* Batches whose sequence numbers follow the emission order, of every name.
NameBatches(n, size) ==
    {[k \in 1..size |-> CallOf(n, k, k - 1, f[k])] : f \in [1..size -> CallNames]}

TerminalResponse == MessageOf("assistant", <<ContentOf("done")>>)

\* A batch with free sequence numbers opens a run's tool calls; batches with
\* free names follow while the run's bound leaves room.
ToolResponses(n, asked) ==
    {MessageOf("assistant", <<ContentOf("calling tool")>> \o batch) :
        batch \in UNION ({OrderBatches(n, size) :
                             size \in 2..(IF asked = 0 THEN MaxBatch ELSE 0)}
                         \cup {NameBatches(n, size) :
                                   size \in 1..(IF MaxToolCalls - asked < MaxNamed
                                                THEN MaxToolCalls - asked
                                                ELSE MaxNamed)})}

\* The Messages the model may answer request n with: a terminal Message, or
\* one with tool calls while the run's bounds leave room for them.
Responses(n) ==
    {TerminalResponse}
    \cup (IF Len(requests) < MaxModelCalls
          THEN ToolResponses(n, ToolCallsIn(callbackLog))
          ELSE {})

(***************************************************************************)
(* Initial state and actions.                                              *)
(***************************************************************************)
AgentInit ==
    /\ \E config \in AgentConfigs :
           /\ systemPrompt = config.systemPrompt
           /\ tools = config.tools
           /\ conversationManager = config.conversationManager
           /\ host = config.host
           /\ configureLog = <<Configure(config.conversationManager, AgentModel)>>
    /\ mutations = 0
    /\ built = << >>
    /\ conversation = [defined |-> FALSE, messages |-> 0, manager |-> "default"]
    /\ heap = << >>
    /\ toolNameToIndexMap = [defined |-> FALSE, index |-> << >>]
    /\ invocations = << >>
    /\ requests = << >>
    /\ executions = << >>
    /\ callbackLog = << >>
    /\ appendLog = << >>
    /\ inflight = {}

\* A fresh MessageBuilder and an OllamaModel that was not called yet.
LibraryInit ==
    /\ messageBuilder = [_role |-> NoRole, _content |-> NoArray]
    /\ messageArrays = << >>
    /\ builtMessages = << >>
    /\ builderLog = << >>
    /\ filterLog = << >>
    /\ ollamaCalls = << >>

\* A proxy server built with the limiter, before its first request.
ProxyInit(limiter) ==
    /\ rateLimiter = limiter
    /\ clock = StartOfClock
    /\ proxyLog = << >>

Init == AgentInit /\ LibraryInit /\ ProxyInit(NoLimiter)

\* The handler's result (computed once) becomes the next state.
Commit(i, r) ==
    \E res \in {r} :
        /\ conversation' = res.w.conversation
        /\ heap' = res.w.heap
        /\ toolNameToIndexMap' = res.w.map
        /\ requests' = res.w.requests
        /\ executions' = res.w.executions
        /\ callbackLog' = res.w.callbackLog
        /\ appendLog' = res.w.appendLog
        /\ inflight' = res.w.inflight
        /\ configureLog' = res.w.configureLog
        /\ invocations' = IF i > Len(invocations) THEN Append(invocations, res.l)
                          ELSE [invocations EXCEPT ![i] = res.l]
        /\ UNCHANGED <<systemPrompt, tools, conversationManager, host,
                       mutations, built>>
        /\ UNCHANGED libraryVars

Finish(w, op, i, n) ==
    [w EXCEPT !.inflight = w.inflight \ {[inv |-> i, op |-> op, n |-> n]}]

\* The host calls agent.invoke(query, callback) once no earlier call is
\* running: invoke runs to its first await.
InvokeStart(query, callback) ==
    /\ Len(invocations) < MaxInvokes
    /\ Len(requests) < MaxModelCalls
    /\ \A j \in 1..Len(invocations) : invocations[j].pc \in Settled
    /\ LET i == Len(invocations) + 1
           l == NewInvocation(query, callback)
           seeded == Seed(World, query)
       IN  Commit(i, IF Threw(seeded) THEN Reject(seeded, l)
                     ELSE NextQuery(seeded, l, i))

\* model.invoke resolves with a Message.
ModelReturn(i, engine) ==
    /\ invocations[i].pc = "awaitModel"
    /\ \E response \in Responses(invocations[i].n) :
           Commit(i, AfterResponse(Finish(World, "model", i, invocations[i].n),
                                   invocations[i], i, response, engine))

\* model.invoke rejects: the exception leaves invoke.
ModelFailRollback(i) ==
    /\ invocations[i].pc = "awaitModel"
    /\ LET w == Finish(World, "model", i, invocations[i].n)
           ref == w.conversation.messages
           kept == SubSeq(w.heap[ref], 1, Len(w.heap[ref]) - 1)
       IN  Commit(i, Reject([w EXCEPT !.heap[ref] = kept, !.thrown = ModelError],
                            invocations[i]))
ModelFail(i) ==
    /\ invocations[i].pc = "awaitModel"
    /\ Commit(i, Reject([Finish(World, "model", i, invocations[i].n)
                            EXCEPT !.thrown = ModelError],
                        invocations[i]))

\* tool.execute settles: _runTool appends the result or the failure.
ToolSettle(i) ==
    /\ invocations[i].pc = "awaitTool"
    /\ LET l == invocations[i]
           toolCall == l.toolCalls[l.cursor]
           w == SettleTool(Finish(World, "tool", i, l.n), toolCall,
                           Execute(tools[l.tool], toolCall.parameters))
       IN  Commit(i, IF Threw(w) THEN Reject(w, l)
                     ELSE [w |-> w, l |-> [l EXCEPT !.pc = "awaitRunTool"]])

\* await this._runTool(toolCall) resumes the loop of invoke.
RunToolResume(i) ==
    /\ invocations[i].pc = "awaitRunTool"
    /\ Commit(i, AfterTool(World, invocations[i], i))

Next ==
    \/ \E query \in Queries, callback \in host : InvokeStart(query, callback)
    \/ \E i \in 1..Len(invocations), engine \in Engines : ModelReturn(i, engine)
    \/ \E i \in 1..Len(invocations) : ModelFail(i)
    \/ \E i \in 1..Len(invocations) : ToolSettle(i)
    \/ \E i \in 1..Len(invocations) : RunToolResume(i)

Spec == Init /\ [][Next]_vars

\* The host changes agent.tools (a public field holding the array the
\* builder was given) while no invoke is running: it pushes a tool ...
PushTool(tool) ==
    /\ mutations < MaxMutations
    /\ \A j \in 1..Len(invocations) : invocations[j].pc \in Settled
    /\ \A k \in 1..Len(tools) : tools[k] # tool
    /\ tools' = Append(tools, tool)
    /\ mutations' = mutations + 1
    /\ UNCHANGED <<systemPrompt, conversationManager, conversation, heap,
                   toolNameToIndexMap, invocations, requests, executions,
                   callbackLog, appendLog, host, built, inflight,
                   configureLog>>
    /\ UNCHANGED libraryVars

\* ... or removes the first one (tools.shift()).
ShiftTool ==
    /\ mutations < MaxMutations
    /\ \A j \in 1..Len(invocations) : invocations[j].pc \in Settled
    /\ Len(tools) > 0
    /\ tools' = Tail(tools)
    /\ mutations' = mutations + 1
    /\ UNCHANGED <<systemPrompt, conversationManager, conversation, heap,
                   toolNameToIndexMap, invocations, requests, executions,
                   callbackLog, appendLog, host, built, inflight,
                   configureLog>>
    /\ UNCHANGED libraryVars

\* Agents with the default strategy whose host changes the tool list.
MutInit == Init /\ conversationManager = "default" /\ systemPrompt # NoPrompt

MutNext ==
    \/ Next
    \/ \E tool \in {AllTools[k] : k \in 1..Len(AllTools)} : PushTool(tool)
    \/ ShiftTool

MutSpec == MutInit /\ [][MutNext]_vars

\* A model adapter builds the next ToolCall of the Message it assembles from
\* a fresh builder; an id the provider supplies is one it has not used.
BuildToolCall(sequence, id, random) ==
    /\ Len(built) < MaxBuilt
    /\ \A k \in 1..Len(built) : id = NoId \/ built[k].id # id
    /\ built' = Append(built,
                   BuilderBuild(
                       BuilderId(BuilderName(BuilderSequence(BuilderNew, sequence),
                                             "echo"), id),
                       Len(built) + 1, random))
    /\ UNCHANGED <<systemPrompt, tools, conversationManager, conversation, heap,
                   toolNameToIndexMap, invocations, requests, executions,
                   callbackLog, appendLog, host, mutations, inflight,
                   configureLog>>
    /\ UNCHANGED libraryVars

BuildInit ==
    Init /\ conversationManager = "default" /\ systemPrompt = NoPrompt
         /\ tools = NoTools

BuildNext ==
    \E sequence \in {SeqUndefined, 0, 1}, id \in SuppliedIds \cup {NoId},
       random \in Randoms : BuildToolCall(sequence, id, random)

BuildSpec == BuildInit /\ [][BuildNext]_vars

\* Agents built with tools that report one name: EchoShadow reports the
\* name of EchoTool and throws.
EchoShadow == [name |-> "echo", kind |-> "boom"]
SameNameTools ==
    {<<EchoTool, EchoShadow>>, <<EchoShadow, EchoTool>>,
     <<EchoTool, BoomTool, EchoShadow>>, <<EchoShadow, EchoTool, EchoShadow>>}

SameNameInit ==
    /\ systemPrompt \in Prompts
    /\ tools \in SameNameTools
    /\ conversationManager = "default"
    /\ host = PlainHost
    /\ configureLog = <<Configure("default", AgentModel)>>
    /\ mutations = 0
    /\ built = << >>
    /\ conversation = [defined |-> FALSE, messages |-> 0, manager |-> "default"]
    /\ heap = << >>
    /\ toolNameToIndexMap = [defined |-> FALSE, index |-> << >>]
    /\ invocations = << >>
    /\ requests = << >>
    /\ executions = << >>
    /\ callbackLog = << >>
    /\ appendLog = << >>
    /\ inflight = {}
    /\ LibraryInit
    /\ ProxyInit(NoLimiter)

SameNameSpec == SameNameInit /\ [][Next]_vars

\* The host calls agent.invoke(query, callback) while an earlier call is
\* suspended at an await: the new call runs to its first await.
InvokeWhileRunning(query, callback) ==
    /\ Len(invocations) < MaxInvokes
    /\ Len(requests) < MaxModelCalls
    /\ \E j \in 1..Len(invocations) : invocations[j].pc \notin Settled
    /\ LET i == Len(invocations) + 1
           l == NewInvocation(query, callback)
           seeded == Seed(World, query)
       IN  Commit(i, IF Threw(seeded) THEN Reject(seeded, l)
                     ELSE NextQuery(seeded, l, i))

\* What hosts that do not serialize their calls ask.
OverlapQueries == {"hello", "again"}

OverlapInit == Init /\ conversationManager = "default"

OverlapNext ==
    \/ \E query \in OverlapQueries, callback \in host :
           InvokeStart(query, callback)
    \/ \E query \in OverlapQueries, callback \in host :
           InvokeWhileRunning(query, callback)
    \/ \E i \in 1..Len(invocations), engine \in Engines : ModelReturn(i, engine)
    \/ \E i \in 1..Len(invocations) : ModelFail(i)
    \/ \E i \in 1..Len(invocations) : ToolSettle(i)
    \/ \E i \in 1..Len(invocations) : RunToolResume(i)

OverlapSpec == OverlapInit /\ [][OverlapNext]_vars

\* model.invoke resolves with the terminal Message, one of its answers.
ModelReturnsTerminal(i) ==
    /\ invocations[i].pc = "awaitModel"
    /\ Commit(i, AfterResponse(Finish(World, "model", i, invocations[i].n),
                               invocations[i], i, TerminalResponse, "timsort"))

\* No await hangs: a pending model call is answered (the terminal Message
\* is an answer to every request), tools settle and suspended handlers
\* resume.
LiveSpec ==
    /\ Spec
    /\ WF_vars(\E i \in 1..Len(invocations) : ModelReturnsTerminal(i))
    /\ WF_vars(\E i \in 1..Len(invocations) : ToolSettle(i))
    /\ WF_vars(\E i \in 1..Len(invocations) : RunToolResume(i))

(***************************************************************************)
(* MessageBuilder and Message: conversation/message.ts.  A caller holds    *)
(* one builder, calls its methods in any order with arguments that may be  *)
(* undefined, builds Messages from it and filters them.                    *)
(***************************************************************************)
MaxBuilderCalls == 3
MaxMessages == 2
MaxFilters == 1

RoleArgs == {"assistant", "tool"}
ContentArgs == {UndefinedText, "", "hi"}
ThinkingArgs == {UndefinedText, "hmm"}
\* The tool call requests a result may answer, and the values it may carry.
RequestArgs ==
    {ToolCallOf(0, "echo", 1, 11), ToolCallOf(SeqUndefined, "ghost", 2, 12)}
ResultValues == {ValueOf([received |-> 1]), JSONStringify(PlainError("boom"))}
ComponentTypes == {TypeContent, TypeThinking, TypeToolCall, TypeToolResult}

\* The builder with the arrays it refers to.
BuilderWorld == [builder |-> messageBuilder, arrays |-> messageArrays]

\* role(role)
MessageBuilderRole(mb, role) == [mb EXCEPT !.builder._role = role]

\* init(): this._content = [] when it is still undefined.
MessageBuilderInit(mb) ==
    IF mb.builder._content = NoArray
    THEN [builder |-> [mb.builder EXCEPT !._content = Len(mb.arrays) + 1],
          arrays |-> Append(mb.arrays, << >>)]
    ELSE mb

\* this.init(); this._content.push(component)
MessageBuilderPush(mb, component) ==
    LET ready == MessageBuilderInit(mb)
    IN  [ready EXCEPT !.arrays[ready.builder._content] = Append(@, component)]

\* toolCall(toolCall)
MessageBuilderToolCall(mb, toolCall) ==
    IF toolCall = UndefinedComponent THEN mb
    ELSE MessageBuilderPush(mb, toolCall)

\* toolResult(toolResult)
MessageBuilderToolResult(mb, toolResult) ==
    IF toolResult = UndefinedComponent THEN mb
    ELSE MessageBuilderPush(mb, toolResult)

\* thinking(thinking)
MessageBuilderThinking(mb, thinking) ==
    IF thinking = UndefinedText THEN mb
    ELSE MessageBuilderPush(mb, ThinkingOf(thinking))

\* content(content)
MessageBuilderContent(mb, content) ==
    IF content = UndefinedText THEN mb
    ELSE MessageBuilderPush(mb, ContentOf(content))

\* build(): new Message(this._role, this._content) -- the Message holds the
\* builder's array, not a copy of it.
MessageBuilderBuild(mb) ==
    [role |-> mb.builder._role, content |-> mb.builder._content]

\* message.content read through the reference; defined only for a Message
\* that has a component list.
ComponentsOf(message) == messageArrays[message.content]

\* One call on the builder: its method, whether its argument was defined,
\* and what the call was given.
BuilderCall(method, defined, component, request, value) ==
    [method |-> method, defined |-> defined, component |-> component,
     request |-> request, value |-> value]

CallOnBuilder(mb, entry) ==
    /\ Len(builderLog) < MaxBuilderCalls
    /\ messageBuilder' = mb.builder
    /\ messageArrays' = mb.arrays
    /\ builderLog' = Append(builderLog, entry)
    /\ UNCHANGED <<builtMessages, filterLog>>
    /\ UNCHANGED <<agentVars, ollamaVars, proxyVars>>

CallRole(role) ==
    CallOnBuilder(MessageBuilderRole(BuilderWorld, role),
                  BuilderCall("role", FALSE, UndefinedComponent,
                              UndefinedComponent, UndefinedComponent))

CallContent(content) ==
    CallOnBuilder(MessageBuilderContent(BuilderWorld, content),
                  BuilderCall("content", content # UndefinedText,
                              ContentOf(content), UndefinedComponent,
                              UndefinedComponent))

CallThinking(thinking) ==
    CallOnBuilder(MessageBuilderThinking(BuilderWorld, thinking),
                  BuilderCall("thinking", thinking # UndefinedText,
                              ThinkingOf(thinking), UndefinedComponent,
                              UndefinedComponent))

CallToolCall(toolCall) ==
    CallOnBuilder(MessageBuilderToolCall(BuilderWorld, toolCall),
                  BuilderCall("toolCall", toolCall # UndefinedComponent,
                              toolCall, UndefinedComponent, UndefinedComponent))

\* toolResult(ToolResult.of(request, value))
CallToolResult(request, value) ==
    CallOnBuilder(MessageBuilderToolResult(BuilderWorld,
                                           ToolResultOf(request, value)),
                  BuilderCall("toolResult", TRUE, ToolResultOf(request, value),
                              request, value))

\* toolResult(undefined)
CallToolResultUndefined ==
    CallOnBuilder(MessageBuilderToolResult(BuilderWorld, UndefinedComponent),
                  BuilderCall("toolResult", FALSE, UndefinedComponent,
                              UndefinedComponent, UndefinedComponent))

\* build(): the Message returned, the calls made before it and the
\* component list it had when it was returned.
CallBuild ==
    /\ Len(builtMessages) < MaxMessages
    /\ LET message == MessageBuilderBuild(BuilderWorld)
       IN  builtMessages' =
               Append(builtMessages,
                      [message |-> message, calls |-> Len(builderLog),
                       atBuild |-> IF message.content = NoArray THEN << >>
                                   ELSE ComponentsOf(message)])
    /\ UNCHANGED <<messageBuilder, messageArrays, builderLog, filterLog>>
    /\ UNCHANGED <<agentVars, ollamaVars, proxyVars>>

\* message.filter(kind), called twice on a Message that has a component
\* list.
CallFilter(k, kind) ==
    /\ Len(filterLog) < MaxFilters
    /\ builtMessages[k].message.content # NoArray
    /\ LET message == MessageOf(builtMessages[k].message.role,
                                ComponentsOf(builtMessages[k].message))
       IN  filterLog' =
               Append(filterLog,
                      [message |-> k, kind |-> kind,
                       before |-> message.content,
                       first |-> Filter(message, kind),
                       second |-> Filter(message, kind),
                       after |-> message.content])
    /\ UNCHANGED <<messageBuilder, messageArrays, builtMessages, builderLog>>
    /\ UNCHANGED <<agentVars, ollamaVars, proxyVars>>

MessageInit == Init /\ conversationManager = "default"
                    /\ systemPrompt = NoPrompt /\ tools = NoTools

MessageNext ==
    \/ \E role \in RoleArgs : CallRole(role)
    \/ \E content \in ContentArgs : CallContent(content)
    \/ \E thinking \in ThinkingArgs : CallThinking(thinking)
    \/ \E toolCall \in RequestArgs \cup {UndefinedComponent} :
           CallToolCall(toolCall)
    \/ \E request \in RequestArgs, value \in ResultValues :
           CallToolResult(request, value)
    \/ CallToolResultUndefined
    \/ CallBuild
    \/ \E k \in 1..Len(builtMessages), kind \in ComponentTypes :
           CallFilter(k, kind)

MessageSpec == MessageInit /\ [][MessageNext]_vars

(***************************************************************************)
(* OllamaModel: model/OllamaModel.ts.  A caller invokes the adapter with   *)
(* requests over a few tools; the provider answers the HTTP call with any  *)
(* status, or not at all.                                                  *)
(***************************************************************************)
MaxOllamaCalls == 2
MaxRequestTools == 2

\* new Parameter(name, description, type, required)
ParameterOf(name, description, type, required) ==
    [name |-> name, description |-> description, type |-> type,
     required |-> required]

\* Tools as the adapter reads them: getName(), getDescription() and
\* getToolSchema().parameters.
ToolOne ==
    [name |-> "one", description |-> "first tool",
     parameters |-> <<ParameterOf("first", "first param", "string", TRUE),
                      ParameterOf("second", "second param", "number", FALSE)>>]
ToolTwo ==
    [name |-> "two", description |-> "second tool",
     parameters |-> <<ParameterOf("third", "third param", "string", TRUE)>>]
ToolPlain ==
    [name |-> "plain", description |-> "no parameters", parameters |-> << >>]
OllamaTools == {ToolOne, ToolTwo, ToolPlain}

\* The ModelRequests of the model: no messages and up to MaxRequestTools
\* tools.
OllamaRequests ==
    {[messages |-> << >>, tools |-> t] :
        t \in UNION {[1..n -> OllamaTools] : n \in 0..MaxRequestTools}}

\* let required = [] (line 89): the one array every tool object of a call
\* of _formatTools refers to.
RequiredArray == 1

\* The body of the inner loop: the properties object, keyed by parameter
\* name in insertion order.
FormatParameters(parameters) ==
    [j \in 1..Len(parameters) |->
        [name |-> parameters[j].name, type |-> parameters[j].name,
         description |-> parameters[j].description]]

\* The names the inner loop pushes onto required.
RECURSIVE PushRequired(_, _)
PushRequired(required, parameters) ==
    IF parameters = << >> THEN required
    ELSE PushRequired(IF Head(parameters).required
                      THEN Append(required, Head(parameters).name)
                      ELSE required,
                      Tail(parameters))

\* for (let tool of request.tools): the list built so far and the required
\* array, from tool k on.
RECURSIVE FormatToolsFrom(_, _, _)
FormatToolsFrom(requestTools, k, acc) ==
    IF k > Len(requestTools) THEN acc
    ELSE LET tool == requestTools[k]
             toolObject ==
                 [type |-> "function",
                  function |->
                      [name |-> tool.name, description |-> tool.description,
                       parameters |->
                           [type |-> "object",
                            properties |-> FormatParameters(tool.parameters),
                            required |-> RequiredArray]]]
         IN  FormatToolsFrom(requestTools, k + 1,
                 [tools |-> Append(acc.tools, toolObject),
                  required |-> PushRequired(acc.required, tool.parameters)])

\* _formatTools(request) as JSON.stringify and a reader see it: every
\* reference to the required array shows the array as the loop left it.
FormatTools(request) ==
    LET done == FormatToolsFrom(request.tools, 1,
                                [tools |-> << >>, required |-> << >>])
    IN  [k \in 1..Len(done.tools) |->
            [done.tools[k] EXCEPT !.function.parameters.required =
                                      done.required]]

\* _formatMessages(request) for the roles it passes through.
FormatMessages(request) == request.messages

\* response.ok of the fetch Response: a status in the range 200-299.
Ok(status) == status \in 200..299
Statuses == {200, 201, 304, 404, 500}

\* new Error(`HTTP error! status: ${response.status}`)
HttpError(status) ==
    [kind |-> "error", name |-> "Error",
     message |-> <<"HTTP error! status: ", status>>,
     ownName |-> FALSE, circular |-> FALSE]
\* The rejection of fetch itself (no connection) and of response.json().
FetchError == PlainError("fetch failed")
JsonError == PlainError("Unexpected token")

\* The bodies the provider answers with: message.tool_calls absent, or one
\* function call.
NoToolCalls == << >>
Answers ==
    {[role |-> "assistant", content |-> "hi back", tool_calls |-> NoToolCalls],
     [role |-> "assistant", content |-> "",
      tool_calls |-> <<[name |-> "one", index |-> SeqUndefined,
                        arguments |-> 1]>>]}

NoResponse == [role |-> "<none>"]

\* invoke up to await fetch(...): the request object is formatted and
\* posted.
OllamaInvoke(request) ==
    /\ Len(ollamaCalls) < MaxOllamaCalls
    /\ \A i \in 1..Len(ollamaCalls) : ollamaCalls[i].pc \in Settled
    /\ ollamaCalls' =
           Append(ollamaCalls,
                  [request |-> request,
                   body |-> [messages |-> FormatMessages(request),
                             tools |-> FormatTools(request)],
                   pc |-> "awaitFetch", status |-> 0, parsed |-> FALSE,
                   error |-> NoError, response |-> NoResponse])
    /\ UNCHANGED <<agentVars, componentVars, proxyVars>>

\* invoke after fetch resolved, lines 47-51: a Response that is not ok
\* throws, any other goes on to await response.json().
AfterFetchIgnoresStatus(call, status) ==
    [call EXCEPT !.status = status, !.pc = "awaitJson"]
AfterFetch(call, status) ==
    IF ~Ok(status)
    THEN [call EXCEPT !.status = status, !.pc = "rejected",
                      !.error = HttpError(status)]
    ELSE [call EXCEPT !.status = status, !.pc = "awaitJson"]

FetchResolve(i, status) ==
    /\ ollamaCalls[i].pc = "awaitFetch"
    /\ ollamaCalls' = [ollamaCalls EXCEPT ![i] = AfterFetch(@, status)]
    /\ UNCHANGED <<agentVars, componentVars, proxyVars>>

\* fetch rejects: the exception leaves invoke.
FetchReject(i) ==
    /\ ollamaCalls[i].pc = "awaitFetch"
    /\ ollamaCalls' = [ollamaCalls EXCEPT ![i].pc = "rejected",
                                          ![i].error = FetchError]
    /\ UNCHANGED <<agentVars, componentVars, proxyVars>>

\* invoke after response.json() resolved, lines 53-80: the tool calls are
\* parsed and the ModelResponse is built.
AfterJson(call, answer, random) ==
    [call EXCEPT
        !.pc = "returned", !.parsed = TRUE,
        !.response =
            [role |-> answer.role, content |-> answer.content,
             toolCalls |->
                 [k \in 1..Len(answer.tool_calls) |->
                     BuilderBuild(
                         BuilderSequence(
                             BuilderName(BuilderNew, answer.tool_calls[k].name),
                             answer.tool_calls[k].index),
                         answer.tool_calls[k].arguments, random)]]]

JsonResolve(i, answer, random) ==
    /\ ollamaCalls[i].pc = "awaitJson"
    /\ ollamaCalls' = [ollamaCalls EXCEPT ![i] = AfterJson(@, answer, random)]
    /\ UNCHANGED <<agentVars, componentVars, proxyVars>>

\* response.json() rejects (the body is not JSON).
JsonReject(i) ==
    /\ ollamaCalls[i].pc = "awaitJson"
    /\ ollamaCalls' = [ollamaCalls EXCEPT ![i].pc = "rejected",
                                          ![i].error = JsonError]
    /\ UNCHANGED <<agentVars, componentVars, proxyVars>>

OllamaInit == Init /\ conversationManager = "default"
                   /\ systemPrompt = NoPrompt /\ tools = NoTools

OllamaNext ==
    \/ \E request \in OllamaRequests : OllamaInvoke(request)
    \/ \E i \in 1..Len(ollamaCalls), status \in Statuses :
           FetchResolve(i, status)
    \/ \E i \in 1..Len(ollamaCalls) : FetchReject(i)
    \/ \E i \in 1..Len(ollamaCalls), answer \in Answers, random \in Randoms :
           JsonResolve(i, answer, random)
    \/ \E i \in 1..Len(ollamaCalls) : JsonReject(i)

OllamaSpec == OllamaInit /\ [][OllamaNext]_vars

(***************************************************************************)
(* TapewormProxyServer and ProcessLocalRateLimiter:                        *)
(* tapeworm_proxy_server/src/index.ts.  Clients send requests to a server  *)
(* built with or without a limiter while time passes.                      *)
(***************************************************************************)
MaxProxyCalls == 3

\* TapewormConnectionInformation: ip and user, each possibly undefined.  A
\* user may be called like a property of Object.prototype.
ConnectionInfos ==
    {[ip |-> "10.0.0.1", user |-> "ann"],
     [ip |-> "10.0.0.2", user |-> "toString"],
     [ip |-> UndefinedText, user |-> UndefinedText]}

\* The keys attemptGrant may use: connectionInfo.ip ?? "undefined" or
\* connectionInfo.user ?? "undefined".
Identifiers == {"10.0.0.1", "10.0.0.2", "ann", "toString", "undefined"}

\* this.clients[identifier] of a key the object does not own.
Absent == -1

\* new ProcessLocalRateLimiter(granularity, requestsPerSecond): clients is
\* {}, and grantedRequestsPerSecondReciprocal is 1 / requestsPerSecond.
ProcessLocalRateLimiter(granularity, requestsPerSecond) ==
    [kind |-> "processLocal", granularity |-> granularity,
     requestsPerSecond |-> requestsPerSecond,
     clients |-> [id \in Identifiers |-> Absent]]

RateLimiters ==
    {NoLimiter}
    \cup {ProcessLocalRateLimiter(granularity, requestsPerSecond) :
             granularity \in {"username", "ip"}, requestsPerSecond \in {1, 2}}

\* The switch on this.granularity, lines 219-227.
IdentifierOf(limiter, connectionInfo) ==
    LET field == IF limiter.granularity = "username" THEN connectionInfo.user
                 ELSE connectionInfo.ip
    IN  IF field = UndefinedText THEN "undefined" ELSE field

\* identifier in this.clients: own keys and those of Object.prototype.
InClients(clients, identifier) ==
    clients[identifier] # Absent \/ identifier \in ObjectPrototypeKeys

\* this.grantedRequestsPerSecondReciprocal + this.clients[identifier]
\*     < Date.now()
\* with 1 / requestsPerSecond kept exact: both sides are multiplied by
\* requestsPerSecond.  An inherited property is a function; the sum is then
\* a string that compares false with every number.
WindowOver(limiter, last, now) ==
    IF last = Absent THEN FALSE
    ELSE 1 + limiter.requestsPerSecond * last < limiter.requestsPerSecond * now

\* attemptGrant(connectionInfo), lines 218-242; read and stored are what the
\* two calls of Date.now() return.
AttemptGrant(limiter, connectionInfo, read, stored) ==
    LET identifier == IdentifierOf(limiter, connectionInfo)
        known == IF InClients(limiter.clients, identifier) THEN limiter
                 ELSE [limiter EXCEPT !.clients[identifier] = 0]
    IN  IF WindowOver(known, known.clients[identifier], read)
        THEN [limiter |-> [known EXCEPT !.clients[identifier] = stored],
              granted |-> TRUE]
        ELSE [limiter |-> known, granted |-> FALSE]

TooManyClients ==
    PlainError("Too many clients using the model right now. Please try again later.")

\* invokeSync(modelRequest, connectionInfo), lines 38-51: the limiter after
\* the call and what the call did.
InvokeSyncUngated(limiter, connectionInfo, read, stored) ==
    [limiter |-> limiter,
     call |-> [connectionInfo |-> connectionInfo, identifier |-> "<none>",
               at |-> read, done |-> stored, attempts |-> 0,
               granted |-> FALSE, modelCalled |-> TRUE, thrown |-> NoError]]
InvokeSync(limiter, connectionInfo, read, stored) ==
    IF limiter = NoLimiter
    THEN [limiter |-> limiter,
          call |-> [connectionInfo |-> connectionInfo, identifier |-> "<none>",
                    at |-> read, done |-> stored, attempts |-> 0,
                    granted |-> FALSE, modelCalled |-> TRUE,
                    thrown |-> NoError]]
    ELSE LET attempt == AttemptGrant(limiter, connectionInfo, read, stored)
         IN  [limiter |-> attempt.limiter,
              call |-> [connectionInfo |-> connectionInfo,
                        identifier |-> IdentifierOf(limiter, connectionInfo),
                        at |-> read, done |-> stored, attempts |-> 1,
                        granted |-> attempt.granted,
                        modelCalled |-> attempt.granted,
                        thrown |-> IF attempt.granted THEN NoError
                                   ELSE TooManyClients]]

\* A request arrives; the clock may move on while it is handled.
ProxyRequest(connectionInfo, late) ==
    /\ Len(proxyLog) < MaxProxyCalls
    /\ LET done == InvokeSync(rateLimiter, connectionInfo, clock, clock + late)
       IN  /\ rateLimiter' = done.limiter
           /\ proxyLog' = Append(proxyLog, done.call)
    /\ clock' = clock + late
    /\ UNCHANGED <<agentVars, componentVars, ollamaVars>>

\* Time passes between two requests.
Tick(delta) ==
    /\ Len(proxyLog) < MaxProxyCalls
    /\ clock = IF proxyLog = << >> THEN StartOfClock
               ELSE proxyLog[Len(proxyLog)].done
    /\ clock' = clock + delta
    /\ UNCHANGED <<rateLimiter, proxyLog>>
    /\ UNCHANGED <<agentVars, componentVars, ollamaVars>>

Delays == {1, 2, 500, 1000}

ProxyServerInit ==
    /\ AgentInit /\ conversationManager = "default"
    /\ systemPrompt = NoPrompt /\ tools = NoTools
    /\ LibraryInit
    /\ \E limiter \in RateLimiters : ProxyInit(limiter)

ProxyNext ==
    \/ \E connectionInfo \in ConnectionInfos, late \in {0, 1} :
           ProxyRequest(connectionInfo, late)
    \/ \E delta \in Delays : Tick(delta)

ProxySpec == ProxyServerInit /\ [][ProxyNext]_vars

(***************************************************************************)
(* Observations used by the properties.                                    *)
(***************************************************************************)
\* The Conversation's messages now.
Hist == History(World)

Roles(messages) == [k \in 1..Len(messages) |-> messages[k].role]

HasToolCalls(message) == Len(Filter(message, TypeToolCall)) > 0

\* The Messages the model returned to invocation i, and its requests.
ResponsesTo(i) == SelectSeq(callbackLog, LAMBDA e : e.inv = i)
RequestsOf(i) == SelectSeq(requests, LAMBDA r : r.inv = i)
ExecutionsOf(i) == SelectSeq(executions, LAMBDA e : e.inv = i)

Started == 1..Len(invocations)

(***************************************************************************)
(* C1.  The loop of invoke runs another model call exactly after a         *)
(* response holding a tool call, returns right after the first response    *)
(* with none, makes no model call afterwards, and -- the model answering   *)
(* and the tools settling -- every invoke eventually gives control back.   *)
(***************************************************************************)
C1_LoopState(i) ==
    LET l == invocations[i]
        resp == ResponsesTo(i)
        reqs == RequestsOf(i)
        last == resp[Len(resp)].message
    IN  \* a model call followed a response only if that response held a tool call
        /\ \A k \in 1..Len(reqs) - 1 : HasToolCalls(resp[k].message)
        /\ Len(resp) <= Len(reqs) /\ Len(reqs) <= Len(resp) + 1
        \* returned: right after a response without tool calls, none after it
        /\ l.pc = "returned" =>
               /\ Len(resp) = Len(reqs)
               /\ ~HasToolCalls(last)
        \* the tools of a turn run only for a response that holds tool calls
        /\ l.pc \in {"awaitTool", "awaitRunTool"} =>
               Len(resp) = Len(reqs) /\ HasToolCalls(last)
        \* the next model call is out exactly when every response so far led on
        /\ l.pc = "awaitModel" => Len(reqs) = Len(resp) + 1
        \* a terminal response that was appended is never followed by a reject
        /\ (l.pc = "rejected" /\ Len(resp) = Len(reqs) /\ Len(resp) > 0
            /\ ~HasToolCalls(last)) =>
               (l.error = CallbackError \/ l.error.name = "ConversationManagerNotImplemented")

C1_NoCallAfterReturn ==
    \A i \in Started :
        invocations[i].pc = "returned" =>
            /\ invocations'[i] = invocations[i]
            /\ Len(SelectSeq(requests', LAMBDA r : r.inv = i)) = Len(RequestsOf(i))

Registered(name) == \E k \in 1..Len(tools) : tools[k].name = name

C2_Case ==
    /\ Len(invocations) = 1
    /\ invocations[1].pc = "returned"
    /\ systemPrompt # NoPrompt
    /\ conversationManager = "default"
    /\ Len(ResponsesTo(1)) = 2
    /\ Len(Filter(ResponsesTo(1)[1].message, TypeToolCall)) = 1
    /\ Registered(Filter(ResponsesTo(1)[1].message, TypeToolCall)[1].name)

C2_OneToolTurn ==
    C2_Case =>
        LET toolCall == Filter(ResponsesTo(1)[1].message, TypeToolCall)[1]
            k == CHOOSE k \in 1..Len(tools) : tools[k].name = toolCall.name
            returned == Execute(tools[k], toolCall.parameters)
        IN  /\ executions = <<[inv |-> 1, tool |-> k,
                               input |-> toolCall.parameters, id |-> toolCall.id]>>
            /\ Roles(Hist) = <<"system", "user", "assistant", "tool", "assistant">>
            /\ Hist[3] = ResponsesTo(1)[1].message
            /\ Hist[5] = ResponsesTo(1)[2].message
            /\ Len(Hist[4].content) = 1
            /\ Hist[4].content[1].type = TypeToolResult
            /\ Hist[4].content[1].id = toolCall.id
            /\ Hist[4].content[1].toolName = toolCall.name
            /\ returned.kind = "value" => Hist[4].content[1].toolResult = returned
            /\ Len(requests) = 2

\* The echo tool was called once and the invoke returned.
C2_Witness ==
    /\ C2_Case
    /\ Filter(ResponsesTo(1)[1].message, TypeToolCall)[1].name = "echo"
    /\ Hist[4].content[1].toolResult = ValueOf([received |-> 1])

(***************************************************************************)
(* C3.  First invoke of an Agent with a system prompt, no tools and the    *)
(* default strategy, the model's first response being terminal: the roles  *)
(* are system, user, assistant; the request the adapter received held, at  *)
(* the call, exactly the system Message and the user Message, and the      *)
(* Agent's tool list.                                                       *)
(***************************************************************************)
C3_Case ==
    /\ Len(invocations) = 1
    /\ systemPrompt # NoPrompt
    /\ tools = NoTools
    /\ conversationManager = "default"

C3_FirstRequest ==
    C3_Case =>
        /\ invocations[1].pc = "awaitModel" /\ Len(requests) = 1 =>
               requests[1].atCall = Hist
        /\ Len(requests) >= 1 =>
               /\ requests[1].atCall =
                      <<MessageOf("system", <<ContentOf(systemPrompt)>>),
                        MessageOf("user", <<ContentOf(invocations[1].query)>>)>>
               /\ requests[1].tools = tools
        /\ (invocations[1].pc = "returned" /\ Len(ResponsesTo(1)) = 1) =>
               /\ Roles(Hist) = <<"system", "user", "assistant">>
               /\ Hist[3] = ResponsesTo(1)[1].message
               /\ Len(requests) = 1

C3_Witness ==
    /\ C3_Case
    /\ invocations[1].pc = "returned"
    /\ Len(ResponsesTo(1)) = 1
    /\ Len(Hist) = 3

(***************************************************************************)
(* Batches of tool calls in the Conversation (default strategy).           *)
(***************************************************************************)
\* The correlation ids of the tool Messages from position p on, up to the
\* next Message that is not a tool Message.
RECURSIVE ResultIdsFrom(_, _)
ResultIdsFrom(messages, p) ==
    IF p > Len(messages) \/ messages[p].role # "tool" THEN << >>
    ELSE <<messages[p].content[1].id>> \o ResultIdsFrom(messages, p + 1)

\* Positions of the assistant Messages that hold tool calls.
Turns(messages) ==
    {p \in 1..Len(messages) :
        messages[p].role = "assistant" /\ HasToolCalls(messages[p])}

\* Emission position of the call with the given id in a turn's tool calls.
EmittedAt(calls, id) == CHOOSE k \in 1..Len(calls) : calls[k].id = id

ToolMessagesOf(messages, id) ==
    {p \in 1..Len(messages) :
        messages[p].role = "tool" /\ messages[p].content[1].id = id}

\* Tool call k of invocation i's current turn has been dealt with.
Handled(i, k) ==
    \/ k < invocations[i].cursor
    \/ k = invocations[i].cursor /\ invocations[i].pc \in {"awaitRunTool", "awaitModel"}

(***************************************************************************)
(* C4.  A registered tool's execute raised: one tool Message holding the   *)
(* serialized failure and the call's id is appended, and the failure does  *)
(* not leave invoke.                                                       *)
(***************************************************************************)
C4_ToolFailureIsolated ==
    conversationManager = "default" =>
        \A k \in 1..Len(executions) :
            LET e == executions[k]
                outcome == Execute(tools[e.tool], e.input)
            IN  (outcome.kind = "error"
                 /\ [inv |-> e.inv, op |-> "tool", n |-> k] \notin inflight) =>
                    /\ invocations[e.inv].error \notin {outcome, StringifyError}
                    /\ \E p \in ToolMessagesOf(Hist, e.id) :
                           Hist[p].content[1].toolResult.kind = "string"
                    /\ Cardinality(ToolMessagesOf(Hist, e.id)) = 1

(***************************************************************************)
(* C5.  A tool call whose name no registered tool has: no tool runs, one   *)
(* tool Message with a tool-not-found error and the call's id is appended, *)
(* and invoke does not throw.                                              *)
(***************************************************************************)
C5_UnregisteredIsNotFound ==
    conversationManager = "default" =>
        \A i \in Started :
            \A k \in 1..Len(invocations[i].toolCalls) :
                LET toolCall == invocations[i].toolCalls[k]
                IN  (~Registered(toolCall.name) /\ Handled(i, k)) =>
                        /\ \A x \in 1..Len(executions) : executions[x].id # toolCall.id
                        /\ Cardinality(ToolMessagesOf(Hist, toolCall.id)) = 1
                        /\ \A p \in ToolMessagesOf(Hist, toolCall.id) :
                               /\ Hist[p].content[1].toolResult.kind = "error"
                               /\ Hist[p].content[1].toolResult.name = "ToolNotFoundError"

(***************************************************************************)
(* C6.  The model adapter's invoke failed: the failure leaves invoke, the  *)
(* Conversation is what it was when the model was called (the user         *)
(* Message and the tool results of this invoke included), and the next     *)
(* invoke appends its user Message to that history.                        *)
(***************************************************************************)
UserMessage(i) == MessageOf("user", <<ContentOf(invocations[i].query)>>)

ToolCallCount(entries) == ToolCallsIn(entries)

C6_Failed(i) == invocations[i].error = ModelError

C6_ModelFailureKeepsHistory ==
    \A i \in Started :
        C6_Failed(i) =>
            LET atCall == requests[invocations[i].n].atCall
                mine == ResponsesTo(i)
            IN  /\ invocations[i].pc = "rejected"
                /\ i = Len(invocations) => Hist = atCall
                /\ conversationManager = "default" =>
                       \* this invoke's Messages are the tail of the history
                       LET added == 1 + Len(mine) + ToolCallCount(mine)
                       IN  /\ Len(atCall) >= added
                           /\ atCall[Len(atCall) - added + 1] = UserMessage(i)
                           /\ \A p \in Len(atCall) - added + 2 .. Len(atCall) :
                                  atCall[p].role \in {"assistant", "tool"}
                           /\ Cardinality({p \in Len(atCall) - added + 2 .. Len(atCall) :
                                  atCall[p].role = "tool"}) = ToolCallCount(mine)
                /\ (conversationManager = "default" /\ i < Len(invocations)) =>
                       /\ Len(Hist) > Len(atCall)
                       /\ SubSeq(Hist, 1, Len(atCall) + 1) = Append(atCall, UserMessage(i + 1))

\* A model call failed after a tool result, and a later invoke went on.
C6_Witness ==
    \E i \in Started :
        /\ C6_Failed(i)
        /\ conversationManager = "default"
        /\ ToolCallCount(ResponsesTo(i)) > 0
        /\ i < Len(invocations)
        /\ Len(RequestsOf(i + 1)) > 0

DistinctKeys(calls) ==
    \A a, b \in 1..Len(calls) : a # b => SeqKey(calls[a]) # SeqKey(calls[b])

C8_AscendingOrder ==
    conversationManager = "default" =>
        \A p \in Turns(Hist) :
            LET calls == Filter(Hist[p], TypeToolCall)
                ids == ResultIdsFrom(Hist, p + 1)
                ran == SelectSeq(executions,
                           LAMBDA e : \E k \in 1..Len(calls) : calls[k].id = e.id)
            IN  DistinctKeys(calls) =>
                    /\ \A a, b \in 1..Len(ids) :
                           a < b => SeqKey(calls[EmittedAt(calls, ids[a])])
                                    < SeqKey(calls[EmittedAt(calls, ids[b])])
                    /\ \A a, b \in 1..Len(ran) :
                           a < b => SeqKey(calls[EmittedAt(calls, ran[a].id)])
                                    < SeqKey(calls[EmittedAt(calls, ran[b].id)])

\* A turn emitted out of order whose calls all ran and were answered.
C8_Witness ==
    /\ conversationManager = "default"
    /\ \E p \in Turns(Hist) :
           LET calls == Filter(Hist[p], TypeToolCall)
           IN  /\ Len(calls) >= 2
               /\ DistinctKeys(calls)
               /\ SeqKey(calls[1]) > SeqKey(calls[Len(calls)])
               /\ Len(ResultIdsFrom(Hist, p + 1)) = Len(calls)
               /\ \A k \in 1..Len(calls) :
                      \E x \in 1..Len(executions) : executions[x].id = calls[k].id

(***************************************************************************)
(* C9.  Tool calls of one turn with equal sequence numbers (an absent one  *)
(* counting as 0) are run, and answered, in the order the model emitted    *)
(* them.                                                                   *)
(***************************************************************************)
C9_TiesKeepEmissionOrder ==
    conversationManager = "default" =>
        \A p \in Turns(Hist) :
            LET calls == Filter(Hist[p], TypeToolCall)
                ids == ResultIdsFrom(Hist, p + 1)
            IN  \A a, b \in 1..Len(ids) :
                    (a < b /\ SeqKey(calls[EmittedAt(calls, ids[a])])
                              = SeqKey(calls[EmittedAt(calls, ids[b])])) =>
                        EmittedAt(calls, ids[a]) < EmittedAt(calls, ids[b])

(***************************************************************************)
(* C10.  An invoke has at most one model call or tool execution in flight; *)
(* a tool execution starts when the earlier calls of the turn have their   *)
(* tool Messages appended, a model call when all calls of the turn have.   *)
(***************************************************************************)
\* The last count Messages are the tool Messages of calls[1..count], after
\* the assistant Message that requested them.
EndsWithResults(messages, response, calls, count) ==
    /\ Len(messages) > count
    /\ messages[Len(messages) - count] = response
    /\ \A k \in 1..count :
           /\ messages[Len(messages) - count + k].role = "tool"
           /\ messages[Len(messages) - count + k].content[1].id = calls[k].id

C10_OneAtATime ==
    \A i \in Started :
        LET l == invocations[i]
            mine == {o \in inflight : o.inv = i}
            resp == ResponsesTo(i)
        IN  /\ Cardinality(mine) <= 1
            /\ l.pc = "awaitModel" <=> [inv |-> i, op |-> "model", n |-> l.n] \in mine
            /\ l.pc = "awaitTool" <=> [inv |-> i, op |-> "tool", n |-> l.n] \in mine
            /\ (conversationManager = "default" /\ l.pc = "awaitTool") =>
                   EndsWithResults(Hist, resp[Len(resp)].message, l.toolCalls,
                                   l.cursor - 1)
            /\ (conversationManager = "default" /\ l.pc = "awaitModel"
                /\ Len(resp) > 0) =>
                   EndsWithResults(requests[l.n].atCall, resp[Len(resp)].message,
                                   l.toolCalls, Len(l.toolCalls))

\* The second tool of a turn is running after the first was answered.
C10_Witness ==
    \E i \in Started :
        /\ conversationManager = "default"
        /\ invocations[i].pc = "awaitTool"
        /\ invocations[i].cursor = 2
        /\ Len(executions) >= 2

(***************************************************************************)
(* C11.  Default strategy: the request that follows a tool turn holds the  *)
(* history of the request before it, then the assistant Message, then one  *)
(* tool Message for every tool call of that Message (success, failure or   *)
(* not found), and the Agent's tool list.                                  *)
(***************************************************************************)
C11_NextRequestSeesResults ==
    conversationManager = "default" =>
        \A i \in Started :
            \A j \in 2..Len(RequestsOf(i)) :
                LET request == RequestsOf(i)[j]
                    before == RequestsOf(i)[j - 1].atCall
                    response == ResponsesTo(i)[j - 1].message
                    calls == Filter(response, TypeToolCall)
                    seen == request.atCall
                IN  /\ Len(seen) = Len(before) + 1 + Len(calls)
                    /\ SubSeq(seen, 1, Len(before)) = before
                    /\ seen[Len(before) + 1] = response
                    /\ \A k \in 1..Len(calls) :
                           \E p \in Len(before) + 2 .. Len(seen) :
                               /\ seen[p].role = "tool"
                               /\ Len(seen[p].content) = 1
                               /\ seen[p].content[1].type = TypeToolResult
                               /\ seen[p].content[1].id = calls[k].id
                    /\ request.tools = tools
                    /\ request.messages = conversation.messages

\* A request after a turn with a thrown tool failure and a tool not found.
C11_Witness ==
    /\ conversationManager = "default"
    /\ \E i \in Started :
           /\ Len(RequestsOf(i)) >= 2
           /\ LET seen == RequestsOf(i)[2].atCall
              IN  /\ \E p \in 1..Len(seen) :
                         /\ seen[p].role = "tool"
                         /\ seen[p].content[1].toolResult.kind = "error"
                  /\ \E p \in 1..Len(seen) :
                         /\ seen[p].role = "tool"
                         /\ seen[p].content[1].toolResult.kind = "string"

(***************************************************************************)
(* C12.  Every Conversation.append calls the strategy's compact once, on   *)
(* the history with the new Message pushed, and stores what compact        *)
(* returned; with the default strategy the stored history is the previous  *)
(* history followed by the new Message.                                    *)
(***************************************************************************)
C12_AppendCompactsOnce ==
    /\ \A k \in 1..Len(appendLog) :
           LET e == appendLog[k]
           IN  /\ Len(e.calls) = 1
               /\ e.calls[1].manager = conversationManager
               /\ e.calls[1].input = Append(e.before, e.message)
               /\ ~e.calls[1].threw => e.stored = e.calls[1].output
               /\ conversationManager = "default" =>
                      e.stored = Append(e.before, e.message)
               /\ k > 1 => e.before = appendLog[k - 1].stored
    /\ Len(appendLog) > 0 => Hist = appendLog[Len(appendLog)].stored

\* An append whose compaction returned a shorter history, which was stored.
C12_Witness ==
    \E k \in 1..Len(appendLog) :
        /\ ~appendLog[k].calls[1].threw
        /\ Len(appendLog[k].calls[1].output) < Len(appendLog[k].calls[1].input)
        /\ appendLog[k].stored = appendLog[k].calls[1].output

(***************************************************************************)
(* C13.  With the strategy that keeps the last KeepLast Messages, the      *)
(* messages of a request hold at most KeepLast entries when the request is *)
(* handed to the model adapter and for as long as the model call runs.     *)
(***************************************************************************)
C13_RequestsAreTruncated ==
    conversationManager = "lastN" =>
        /\ \A n \in 1..Len(requests) : Len(requests[n].atCall) <= KeepLast
        /\ \A i \in Started :
               invocations[i].pc = "awaitModel" =>
                   /\ requests[invocations[i].n].messages = conversation.messages
                   /\ Len(heap[requests[invocations[i].n].messages]) <= KeepLast

\* A request of the second invoke, after a tool turn of the first: more
\* Messages were appended than the strategy keeps.
C13_Witness ==
    /\ conversationManager = "lastN"
    /\ Len(appendLog) > KeepLast + 2
    /\ Len(executions) > 0
    /\ Len(invocations) = 2
    /\ invocations[2].pc = "awaitModel"

(***************************************************************************)
(* C14.  An invoke on an Agent whose earlier invoke returned keeps the     *)
(* Conversation: it pushes one user Message, whose one component is the    *)
(* query, onto the history that was there; with the default strategy the   *)
(* earlier history is a prefix of the new one.                             *)
(***************************************************************************)
C14_Reinvoked ==
    /\ Len(invocations) >= 1
    /\ Len(invocations') = Len(invocations) + 1
    /\ invocations[Len(invocations)].pc = "returned"

C14_Step ==
    C14_Reinvoked =>
        LET query == invocations'[Len(invocations')].query
            user == MessageOf("user", <<ContentOf(query)>>)
        IN  /\ conversation'.defined
            /\ conversation'.manager = conversation.manager
            /\ heap'[conversation.messages] = Append(Hist, user)
            /\ Len(appendLog') = Len(appendLog) + 1
            /\ appendLog'[Len(appendLog')].message = user
            /\ appendLog'[Len(appendLog')].before = Hist
            /\ conversationManager = "default" =>
                   /\ conversation' = conversation
                   /\ History(World)' = Append(Hist, user)

C14_AgentIsReusable == [][C14_Step]_vars

\* A second invoke is running on the history a returned invoke left.
C14_Witness ==
    /\ Len(invocations) = 2
    /\ invocations[1].pc = "returned"
    /\ conversationManager = "default"
    /\ Len(ExecutionsOf(1)) > 0
    /\ invocations[2].pc = "awaitModel"

(***************************************************************************)
(* C15.  Sequential invokes, default strategy: with a system prompt the    *)
(* Conversation's first Message is the one system Message and holds the    *)
(* prompt text alone; without a prompt there is no system Message and the  *)
(* first Message is the user's.                                            *)
(***************************************************************************)
SystemMessages(messages) ==
    {p \in 1..Len(messages) : messages[p].role = "system"}

C15_OneSystemPrompt ==
    (conversationManager = "default" /\ Len(Hist) > 0) =>
        IF systemPrompt # NoPrompt
        THEN /\ SystemMessages(Hist) = {1}
             /\ Hist[1] = MessageOf("system", <<ContentOf(systemPrompt)>>)
        ELSE /\ SystemMessages(Hist) = {}
             /\ Hist[1] = UserMessage(1)

\* The second invoke of an Agent with a system prompt has appended its query.
C15_Witness ==
    /\ conversationManager = "default"
    /\ systemPrompt # NoPrompt
    /\ Len(invocations) = 2
    /\ Len(Hist) >= 4
    /\ Hist[Len(Hist)] = UserMessage(2)

(***************************************************************************)
(* C16.  For every model call that returned, the callback in effect (the   *)
(* one passed to invoke, else the Agent's) was called once, with the       *)
(* Message that is appended next, while the Conversation was still what    *)
(* the request had shown; terminal or not.                                 *)
(***************************************************************************)
\* Model calls of invocation i that have returned a Message.
Answered(i) ==
    Len(RequestsOf(i))
    - (IF invocations[i].pc = "awaitModel" \/ invocations[i].error = ModelError
       THEN 1 ELSE 0)

\* The append of a response follows its callback unless the callback threw.
AppendedAfter(entry) ==
    \E k \in 1..Len(appendLog) :
        /\ appendLog[k].before = entry.history
        /\ appendLog[k].message = entry.message

C16_CallbackPerResponse ==
    \A i \in Started :
        LET l == invocations[i]
            called == ResponsesTo(i)
        IN  /\ l.callback = (IF l.given = NoCallback THEN "agent" ELSE l.given)
            /\ Len(called) = Answered(i)
            /\ \A j \in 1..Len(called) :
                   /\ called[j].callback = l.callback
                   /\ called[j].history = RequestsOf(i)[j].atCall
                   /\ ~AppendedAfter(called[j]) =>
                          /\ j = Len(called)
                          /\ l.pc = "rejected"
                          /\ l.error = CallbackError
                   /\ (AppendedAfter(called[j]) /\ conversationManager = "default") =>
                          \E p \in Len(called[j].history) + 1 .. Len(Hist) :
                              Hist[p] = called[j].message

\* A callback passed to invoke has seen a response with tool calls and the
\* terminal response after it.
C16_Witness ==
    \E i \in Started :
        /\ invocations[i].given = "given"
        /\ invocations[i].pc = "returned"
        /\ Len(ResponsesTo(i)) >= 2
        /\ HasToolCalls(ResponsesTo(i)[1].message)
        /\ ~HasToolCalls(ResponsesTo(i)[Len(ResponsesTo(i))].message)

(***************************************************************************)
(* C17.  Every tool Message that carries an error (tool not found, or a    *)
(* serialized tool failure) and is appended to the Conversation has been   *)
(* handed to the response callback.                                        *)
(***************************************************************************)
CarriesError(message) ==
    /\ message.role = "tool"
    /\ message.content[1].toolResult.kind \in {"error", "string"}

C17_CallbackSeesToolErrors ==
    \A k \in 1..Len(appendLog) :
        CarriesError(appendLog[k].message) =>
            \E c \in 1..Len(callbackLog) :
                callbackLog[c].message = appendLog[k].message

(***************************************************************************)
(* C17, amended.  A tool Message that carries an error is appended to the  *)
(* Conversation and never handed to the response callback, which receives  *)
(* only the Messages the model returned; with the default strategy every   *)
(* later request to the model holds the tool Message.                      *)
(***************************************************************************)
C17_ToolErrorsReachTheModelOnly ==
    /\ \A c \in 1..Len(callbackLog) :
           /\ callbackLog[c].inv \in Started
           /\ ~CarriesError(callbackLog[c].message)
           /\ \A k \in 1..Len(appendLog) :
                  CarriesError(appendLog[k].message) =>
                      callbackLog[c].message # appendLog[k].message
    /\ conversationManager = "default" =>
           \A k \in 1..Len(appendLog) :
               CarriesError(appendLog[k].message) =>
                   \A n \in 1..Len(requests) :
                       Len(requests[n].atCall) > Len(appendLog[k].before) =>
                           requests[n].atCall[Len(appendLog[k].before) + 1]
                               = appendLog[k].message

\* A serialized tool failure was appended, and the model was called again.
C17_Witness ==
    /\ conversationManager = "default"
    /\ Len(callbackLog) >= 1
    /\ \E k \in 1..Len(appendLog) :
           /\ CarriesError(appendLog[k].message)
           /\ appendLog[k].message.content[1].toolResult.kind = "string"
           /\ \E n \in 1..Len(requests) :
                  Len(requests[n].atCall) > Len(appendLog[k].before)

(***************************************************************************)
(* C18.  A tool call is resolved against the tool list as it is when the   *)
(* call is made: a call naming a tool of the list runs that tool, also     *)
(* when the tool was added after the first lookup, and a call naming a     *)
(* tool that was removed runs no tool.                                     *)
(***************************************************************************)
\* The tool list during invocation i (the list changes between invokes only).
ToolsDuring(i) == RequestsOf(i)[1].tools

C18_IndexFollowsToolList ==
    \A i \in Started :
        \A k \in 1..Len(invocations[i].toolCalls) :
            LET toolCall == invocations[i].toolCalls[k]
                list == ToolsDuring(i)
                ran == {x \in 1..Len(executions) : executions[x].id = toolCall.id}
            IN  Handled(i, k) =>
                    IF \E t \in 1..Len(list) : list[t].name = toolCall.name
                    THEN \E x \in ran :
                             /\ executions[x].tool \in 1..Len(list)
                             /\ list[executions[x].tool].name = toolCall.name
                    ELSE ran = {}

(***************************************************************************)
(* C19.  Default strategy: every ToolResult in the Conversation has the id *)
(* and the name of a ToolCall of an assistant Message before it, whatever  *)
(* tool the lookup found.                                                  *)
(***************************************************************************)
C19_ResultsAnswerRequests ==
    \A p \in 1..Len(Hist) :
        \A c \in 1..Len(Hist[p].content) :
            Hist[p].content[c].type = TypeToolResult =>
                \E q \in 1..(p - 1) :
                    /\ Hist[q].role = "assistant"
                    /\ \E call \in 1..Len(Hist[q].content) :
                           /\ Hist[q].content[call].type = TypeToolCall
                           /\ Hist[q].content[call].id = Hist[p].content[c].id
                           /\ Hist[q].content[call].name = Hist[p].content[c].toolName

\* The tool that ran reports another name than the call it answered.
C19_Witness ==
    \E x \in 1..Len(executions) :
        \E p \in ToolMessagesOf(Hist, executions[x].id) :
            /\ executions[x].tool \in 1..Len(ToolsDuring(executions[x].inv))
            /\ ToolsDuring(executions[x].inv)[executions[x].tool].name
                   # Hist[p].content[1].toolName

(***************************************************************************)
(* C20.  Every ToolCall that ToolCallBuilder.build produced has an id, and *)
(* no two of the ToolCalls built for one Message have the same id.         *)
(***************************************************************************)
C20_IdsDefinedAndUnique ==
    /\ \A k \in 1..Len(built) : built[k].id # NoId
    /\ \A a, b \in 1..Len(built) : a # b => built[a].id # built[b].id

(***************************************************************************)
(* C21: ToolResult.of(request, value) keeps the request's identity: the    *)
(* result's id is request.id, its toolName is request.name and its payload *)
(* is the value, for every request and value, in the builder's array and   *)
(* in every Message built from it.                                         *)
(***************************************************************************)
\* The calls of toolResult(ToolResult.of(request, value)) made so far.
ResultCalls ==
    {n \in 1..Len(builderLog) :
        builderLog[n].method = "toolResult" /\ builderLog[n].defined}

\* The components the defined calls up to call n appended, in call order.
RECURSIVE Appended(_)
Appended(n) ==
    IF n = 0 THEN << >>
    ELSE IF builderLog[n].defined
    THEN Append(Appended(n - 1), builderLog[n].component)
    ELSE Appended(n - 1)

C21_ResultKeepsIdentity ==
    \A n \in ResultCalls :
        LET stored == messageArrays[messageBuilder._content][Len(Appended(n))]
        IN  /\ stored.type = TypeToolResult
            /\ stored.id = builderLog[n].request.id
            /\ stored.toolName = builderLog[n].request.name
            /\ stored.toolResult = builderLog[n].value

\* Results of both requests, with different values, are in a built Message.
C21_Witness ==
    /\ \E n, m \in ResultCalls :
           /\ builderLog[n].request # builderLog[m].request
           /\ builderLog[n].value # builderLog[m].value
    /\ \E k \in 1..Len(builtMessages) :
           builtMessages[k].calls = Len(builderLog)

(***************************************************************************)
(* C22: build() yields a Message whose component list holds exactly one    *)
(* component per call with a defined argument, of the matching kind, in    *)
(* call order, and nothing for the calls with an undefined argument, also  *)
(* when no call had a defined argument.                                    *)
(***************************************************************************)
\* The kind of component each append-style method appends.
KindOf(method) ==
    CASE method = "content" -> TypeContent
      [] method = "thinking" -> TypeThinking
      [] method = "toolCall" -> TypeToolCall
      [] method = "toolResult" -> TypeToolResult
      [] OTHER -> "<none>"

\* The calls before call n + 1 that had a defined argument, in order.
DefinedCalls(n) == SelectSeq(SubSeq(builderLog, 1, n), LAMBDA c : c.defined)

C22_ListIsTheDefinedCalls(b) ==
    /\ Len(b.atBuild) = Len(DefinedCalls(b.calls))
    /\ \A j \in 1..Len(b.atBuild) :
           /\ b.atBuild[j] = DefinedCalls(b.calls)[j].component
           /\ b.atBuild[j].type = KindOf(DefinedCalls(b.calls)[j].method)

C22_BuildKeepsDefinedArguments ==
    \A k \in 1..Len(builtMessages) :
        /\ builtMessages[k].message.content # NoArray
        /\ C22_ListIsTheDefinedCalls(builtMessages[k])

\* What holds: the same for every Message built after a call with a defined
\* argument; a Message built before any has no component list at all.
C22_DefinedArgumentsOnceAnyIsDefined ==
    \A k \in 1..Len(builtMessages) :
        IF DefinedCalls(builtMessages[k].calls) = << >>
        THEN builtMessages[k].message.content = NoArray
        ELSE /\ builtMessages[k].message.content # NoArray
             /\ C22_ListIsTheDefinedCalls(builtMessages[k])

(***************************************************************************)
(* C23: message.filter(kind) returns exactly the components of the         *)
(* requested kind, in their original order (the components the calls of    *)
(* the matching builder method appended), an empty sequence when none      *)
(* match, the same result when called again, and leaves the Message's      *)
(* component list as it was.                                               *)
(***************************************************************************)
\* s without the elements that are not of the kind: the positions kept.
Positions(components, kind) ==
    {j \in 1..Len(components) : components[j].type = kind}

\* sub is the subsequence of components at the positions of the kind.
RECURSIVE IsSelection(_, _, _)
IsSelection(sub, components, kind) ==
    IF components = << >> THEN sub = << >>
    ELSE IF Head(components).type = kind
    THEN sub # << >> /\ Head(sub) = Head(components)
         /\ IsSelection(Tail(sub), Tail(components), kind)
    ELSE IsSelection(sub, Tail(components), kind)

C23_WitnessNone ==
    \E n \in 1..Len(filterLog) :
        Len(filterLog[n].before) = 2 /\ filterLog[n].first = << >>

(***************************************************************************)
(* C24: a Message is immutable after construction: once build() has        *)
(* returned it, no later call on the builder (role, content, thinking,     *)
(* toolCall, toolResult, build) changes its role or its component list.    *)
(***************************************************************************)
C24_BuiltMessagesNeverChange ==
    \A k \in 1..Len(builtMessages) :
        LET b == builtMessages[k]
        IN  (b.message.content # NoArray) => ComponentsOf(b.message) = b.atBuild

\* The part that holds: the role and the reference a built Message holds
\* are never assigned again.
C24_Fields ==
    \A k \in 1..Len(builtMessages) :
        /\ k <= Len(builtMessages')
        /\ builtMessages'[k].message = builtMessages[k].message

C24_RoleAndReferenceAreKept == [][C24_Fields]_vars

(***************************************************************************)
(* C25: the compaction strategy's configure(model) is called exactly once  *)
(* per Agent, by the constructor and with the Agent's model, hence before  *)
(* any compact of that strategy; no invoke calls configure again, and the  *)
(* strategy every append compacts with is the configured one.              *)
(***************************************************************************)
C25_ConfiguredOnceAtConstruction ==
    /\ configureLog = <<Configure(conversationManager, AgentModel)>>
    /\ \A n \in 1..Len(appendLog) :
           \A c \in 1..Len(appendLog[n].calls) :
               appendLog[n].calls[c].manager = configureLog[1].manager

\* Two invokes have run on an Agent whose strategy is not the default, and
\* the strategy has compacted.
C25_Witness ==
    /\ Len(invocations) = 2
    /\ invocations[2].pc \in Settled
    /\ conversationManager # "default"
    /\ \E n \in 1..Len(appendLog) :
           \E c \in 1..Len(appendLog[n].calls) :
               appendLog[n].calls[c].output # appendLog[n].calls[c].input

(***************************************************************************)
(* C26: an error raised by a base capability that was not overridden (here *)
(* ConversationManager.compact, reached by a strategy that falls back to   *)
(* it) is never caught by the Agent: no catch block of _runTool turns it   *)
(* into a tool-result Message of the Conversation.                         *)
(***************************************************************************)
C26_NotImplementedIsNeverConverted ==
    \A n \in 1..Len(Hist) :
        \A c \in 1..Len(Hist[n].content) :
            LET component == Hist[n].content[c]
            IN  (Hist[n].role = "tool" /\ component.type = TypeToolResult) =>
                    component.toolResult
                        # JSONStringify(ManagerError("history too long"))

(***************************************************************************)
(* C27: when the provider answers the HTTP call with a status that is not  *)
(* a success, OllamaModel.invoke rejects with an error that carries that   *)
(* status, returns no response, and never parses the body.                 *)
(***************************************************************************)
\* The calls whose fetch resolved with a status outside 200-299.
Refused == {i \in 1..Len(ollamaCalls) :
               ollamaCalls[i].status # 0 /\ ~Ok(ollamaCalls[i].status)}

C27_NonSuccessRejectsWithStatus ==
    \A i \in Refused :
        /\ ollamaCalls[i].pc = "rejected"
        /\ ollamaCalls[i].error = HttpError(ollamaCalls[i].status)
        /\ ollamaCalls[i].error.message[2] = ollamaCalls[i].status
        /\ ollamaCalls[i].response = NoResponse
        /\ ~ollamaCalls[i].parsed

\* One call was refused with status 500, another with status 304, after a
\* request with tools.
C27_Witness ==
    /\ \E i \in Refused : ollamaCalls[i].status = 500
                           /\ ollamaCalls[i].request.tools # << >>
    /\ \E i \in Refused : ollamaCalls[i].status = 304

(***************************************************************************)
(* C28: _formatTools emits one schema object per tool, in tool-list order, *)
(* and the required list of each tool's schema holds exactly the names of  *)
(* that tool's own required parameters, in declaration order, whatever the *)
(* other tools of the request are.                                         *)
(***************************************************************************)
\* The names of the parameters of a tool that are required, in order.
RequiredNames(tool) ==
    LET needed == SelectSeq(tool.parameters, LAMBDA q : q.required)
    IN  [j \in 1..Len(needed) |-> needed[j].name]

C28_OneSchemaPerTool ==
    \A i \in 1..Len(ollamaCalls) :
        LET call == ollamaCalls[i]
        IN  /\ Len(call.body.tools) = Len(call.request.tools)
            /\ \A k \in 1..Len(call.body.tools) :
                   call.body.tools[k].function.name = call.request.tools[k].name

C28_RequiredIsPerTool ==
    /\ C28_OneSchemaPerTool
    /\ \A i \in 1..Len(ollamaCalls) :
           LET call == ollamaCalls[i]
           IN  \A k \in 1..Len(call.body.tools) :
                   call.body.tools[k].function.parameters.required
                       = RequiredNames(call.request.tools[k])

(***************************************************************************)
(* C29: invokeSync gates the model call on the rate limiter: with a        *)
(* limiter, attemptGrant is called exactly once and the model is called if *)
(* and only if it returned true, otherwise invokeSync throws the           *)
(* too-many-clients error without calling the model; without a limiter the *)
(* model is always called.                                                 *)
(***************************************************************************)
C29_ModelCallIsGated ==
    \A n \in 1..Len(proxyLog) :
        LET call == proxyLog[n]
        IN  IF rateLimiter = NoLimiter
            THEN call.attempts = 0 /\ call.modelCalled /\ call.thrown = NoError
            ELSE /\ call.attempts = 1
                 /\ call.modelCalled <=> call.granted
                 /\ call.granted => call.thrown = NoError
                 /\ ~call.granted => call.thrown = TooManyClients

\* A limiter has granted one request and refused another.
C29_Witness ==
    /\ rateLimiter # NoLimiter
    /\ \E n, m \in 1..Len(proxyLog) :
           /\ proxyLog[n].granted /\ proxyLog[n].modelCalled
           /\ ~proxyLog[m].granted /\ ~proxyLog[m].modelCalled
           /\ proxyLog[m].identifier \notin ObjectPrototypeKeys

\* ... and a server without a limiter has called the model.
C29_WitnessNoLimiter ==
    rateLimiter = NoLimiter /\ Len(proxyLog) = MaxProxyCalls

(***************************************************************************)
(* C30: a ProcessLocalRateLimiter built with requestsPerSecond = r keeps a *)
(* client to r requests per second: a request within 1/r seconds of the    *)
(* last grant to its identifier is refused, one after that window is       *)
(* granted, so two grants to one identifier are at least 1/r seconds       *)
(* apart.                                                                  *)
(***************************************************************************)
\* The grants to the identifier of call n before call n.
EarlierGrants(n) ==
    {m \in 1..(n - 1) :
        proxyLog[m].granted /\ proxyLog[m].identifier = proxyLog[n].identifier}

\* Call n arrived within 1/r seconds of an earlier grant to its identifier.
WithinWindow(n) ==
    \E m \in EarlierGrants(n) :
        rateLimiter.requestsPerSecond * (proxyLog[n].at - proxyLog[m].at)
            < MsPerSecond

C30_AtMostRPerSecond ==
    rateLimiter # NoLimiter =>
        \A n \in 1..Len(proxyLog) :
            /\ WithinWindow(n) => ~proxyLog[n].granted
            /\ ~WithinWindow(n) => proxyLog[n].granted

(***************************************************************************)
(* C31: with the default strategy the Conversation is an append-only log:  *)
(* every operation of the Agent (seeding, model response, tool result,     *)
(* tool error) changes the history only by adding exactly one Message at   *)
(* the end; no earlier Message is removed, replaced or moved.              *)
(***************************************************************************)
\* Every append stored its Message behind what was there, each append
\* starts from what the one before stored, and the history is what the last
\* one stored.
C31_Log ==
    conversationManager = "default" =>
        /\ \A k \in 1..Len(appendLog) :
               /\ appendLog[k].stored
                      = Append(appendLog[k].before, appendLog[k].message)
               /\ appendLog[k].before
                      = IF k = 1 THEN << >> ELSE appendLog[k - 1].stored
        /\ Hist = IF appendLog = << >> THEN << >>
                  ELSE appendLog[Len(appendLog)].stored

\* A step keeps the history as the beginning of the next one and adds one
\* Message per append it made.
C31_Step ==
    conversationManager = "default" =>
        LET after == IF conversation'.defined
                     THEN heap'[conversation'.messages] ELSE << >>
        IN  /\ Len(after) >= Len(Hist)
            /\ SubSeq(after, 1, Len(Hist)) = Hist
            /\ Len(after) - Len(Hist) = Len(appendLog') - Len(appendLog)

C31_AppendOnlyLog == [](C31_Log) /\ [][C31_Step]_vars

\* A history with a system and a user Message, a model response, a tool
\* result and a tool error.
C31_Witness ==
    /\ conversationManager = "default"
    /\ Len(Hist) >= 5
    /\ Roles(Hist)[1] = "system"
    /\ \E k, j \in 1..Len(Hist) :
           /\ Hist[k].role = "tool" /\ Hist[k].content[1].toolResult.kind = "value"
           /\ Hist[j].role = "tool" /\ Hist[j].content[1].toolResult.kind = "string"

(***************************************************************************)
(* C32: each tool call of a model turn produces exactly one tool-role      *)
(* Message holding exactly one ToolResult.  In every Conversation reached  *)
(* by sequential invokes with the default strategy an assistant Message    *)
(* with k tool calls is followed by exactly k tool Messages, whose ids are *)
(* the k request ids in execution order, before the next assistant         *)
(* Message, and no tool Message stands anywhere else.                      *)
(***************************************************************************)
\* No invoke is running: every turn that was started is over.
C32_Quiet == \A i \in Started : invocations[i].pc \in Settled

\* The tool Messages that follow position p directly.
RECURSIVE ToolRun(_, _)
ToolRun(messages, p) ==
    IF p + 1 <= Len(messages) /\ messages[p + 1].role = "tool"
    THEN <<messages[p + 1]>> \o ToolRun(messages, p + 1)
    ELSE << >>

\* The ids of the tool calls of a response in the order an engine runs them.
C32_IdsInOrder(message, engine) ==
    LET sorted == SortToolCalls(Filter(message, TypeToolCall), engine)
    IN  [k \in 1..Len(sorted) |-> sorted[k].id]

C32_Turn(messages, p) ==
    LET run == ToolRun(messages, p)
    IN  /\ \A k \in 1..Len(run) :
               /\ Len(run[k].content) = 1
               /\ run[k].content[1].type = TypeToolResult
        /\ \E engine \in Engines :
               [k \in 1..Len(run) |-> run[k].content[1].id]
                   = C32_IdsInOrder(messages[p], engine)

C32_OneResultPerCall ==
    (conversationManager = "default" /\ C32_Quiet) =>
        /\ \A p \in 1..Len(Hist) :
               Hist[p].role = "assistant" => C32_Turn(Hist, p)
        /\ \A p \in 1..Len(Hist) :
               Hist[p].role = "tool" =>
                   p > 1 /\ Hist[p - 1].role \in {"assistant", "tool"}

\* The same for the turns whose tools raise no error that JSON.stringify
\* rejects.
C32_NoCircular ==
    \A p \in 1..Len(Hist) :
        \A k \in 1..Len(Hist[p].content) :
            Hist[p].content[k].type = TypeToolCall
                => Hist[p].content[k].name # "circ"

C32_OneResultPerAnsweredCall == C32_NoCircular => C32_OneResultPerCall

(***************************************************************************)
(* C33: the message list of a request handed to the model adapter is a     *)
(* snapshot: Messages appended to the Conversation after that model call   *)
(* change neither the contents nor the length of the request's messages,   *)
(* under the default strategy and under a strategy that returns a new      *)
(* list.                                                                   *)
(***************************************************************************)
\* request.messages, read through the reference the request holds.
C33_MessagesOf(n) == heap[requests[n].messages]

C33_RequestsAreSnapshots ==
    conversationManager \in {"default", "lastN"} =>
        \A n \in 1..Len(requests) : C33_MessagesOf(n) = requests[n].atCall

\* The same under the strategy that returns a new list alone.
C33_SnapshotsUnderNewLists ==
    conversationManager = "lastN" =>
        \A n \in 1..Len(requests) : C33_MessagesOf(n) = requests[n].atCall

(***************************************************************************)
(* C34: sorting a turn's tool calls for execution does not reorder the     *)
(* assistant Message stored in the Conversation: after a turn whose tool   *)
(* calls were emitted out of sequence order the stored assistant Message   *)
(* still lists its components in the order the model emitted them.         *)
(***************************************************************************)
\* The responses that reached the Conversation, as the model emitted them.
C34_Emitted ==
    LET kept == SelectSeq(callbackLog, LAMBDA e : e.callback # "throwing")
    IN  [k \in 1..Len(kept) |-> kept[k].message]

\* The tool calls of a Message are not in ascending sequence order.
C34_OutOfOrder(message) ==
    LET toolCalls == Filter(message, TypeToolCall)
    IN  \E k, j \in 1..Len(toolCalls) :
            k < j /\ SeqKey(toolCalls[k]) > SeqKey(toolCalls[j])

C34_StoredOrderIsEmissionOrder ==
    conversationManager = "default" =>
        SelectSeq(Hist, LAMBDA m : m.role = "assistant") = C34_Emitted

\* A turn emitted out of order whose tools have run in sorted order.
C34_Witness ==
    /\ conversationManager = "default"
    /\ \E p \in 1..Len(Hist) :
           /\ Hist[p].role = "assistant" /\ C34_OutOfOrder(Hist[p])
           /\ Len(ToolRun(Hist, p)) = Len(Filter(Hist[p], TypeToolCall))
           /\ ToolRun(Hist, p)[1].content[1].id
                  # Filter(Hist[p], TypeToolCall)[1].id

(***************************************************************************)
(* C35: when two tools registered on one Agent report the same name, every *)
(* tool call with that name is resolved to the one that is later in the    *)
(* tool list and the earlier one is never executed; the resolution is the  *)
(* same for every call during the Agent's lifetime.                        *)
(***************************************************************************)
\* The last position of the tool list whose tool reports the name.
C35_Last(name) ==
    CHOOSE k \in 1..Len(tools) :
        /\ tools[k].name = name
        /\ \A j \in 1..Len(tools) : tools[j].name = name => j <= k

\* Tool call k of invocation i's current turn went to execute.
C35_Ran(i, k) ==
    \/ Handled(i, k)
    \/ k = invocations[i].cursor /\ invocations[i].pc = "awaitTool"

C35_LaterToolWins ==
    /\ \A i \in Started :
           \A k \in 1..Len(invocations[i].toolCalls) :
               LET toolCall == invocations[i].toolCalls[k]
                   ran == {x \in 1..Len(executions) :
                              executions[x].id = toolCall.id}
               IN  (C35_Ran(i, k) /\ Registered(toolCall.name)) =>
                       /\ Cardinality(ran) = 1
                       /\ \A x \in ran :
                              executions[x].tool = C35_Last(toolCall.name)
    /\ \A x \in 1..Len(executions) :
           executions[x].tool = C35_Last(tools[executions[x].tool].name)

\* Two turns called the name two tools report; the later tool ran both times.
C35_Witness ==
    /\ \E j, k \in 1..Len(tools) : j < k /\ tools[j].name = tools[k].name
                                          /\ tools[j].kind # tools[k].kind
    /\ \E x, y \in 1..Len(executions) :
           /\ x < y
           /\ executions[x].id \div 10 # executions[y].id \div 10
           /\ tools[executions[x].tool].name = "echo"
           /\ tools[executions[y].tool].name = "echo"
    /\ C32_Quiet

(***************************************************************************)
(* C36: when two invoke calls on one fresh Agent overlap (the second       *)
(* starts while the first awaits the model), exactly one Conversation is   *)
(* created, the system-prompt Message is appended at most once and before  *)
(* both user Messages, and both user Messages are kept in the order the    *)
(* invokes were started.                                                   *)
(***************************************************************************)
\* The Messages handed to Conversation.append, in order.
C36_Appended == [k \in 1..Len(appendLog) |-> appendLog[k].message]

C36_TextsOf(messages, role) ==
    LET of == SelectSeq(messages, LAMBDA m : m.role = role)
    IN  [k \in 1..Len(of) |-> of[k].content[1].text]

C36_OneSeededConversation ==
    Len(invocations) >= 1 =>
        \* one Conversation, and so one message array, was created
        /\ conversation.defined /\ conversation.messages = 1 /\ Len(heap) = 1
        \* the system prompt was appended once, first, if there is one
        /\ C36_TextsOf(C36_Appended, "system")
               = IF systemPrompt = NoPrompt THEN << >> ELSE <<systemPrompt>>
        /\ systemPrompt # NoPrompt => C36_Appended[1].role = "system"
        \* the user Messages were appended, and are kept, in starting order
        /\ C36_TextsOf(C36_Appended, "user")
               = [i \in 1..Len(invocations) |-> invocations[i].query]
        /\ C36_TextsOf(Hist, "user")
               = [i \in 1..Len(invocations) |-> invocations[i].query]

\* Two invokes with different queries are suspended at the same time.
C36_Witness ==
    /\ systemPrompt # NoPrompt
    /\ Len(invocations) = 2
    /\ invocations[1].pc \notin Settled /\ invocations[2].pc \notin Settled
    /\ invocations[1].query # invocations[2].query

(***************************************************************************)
(* C37: ProcessLocalRateLimiter keeps one last-grant timestamp per         *)
(* identifier (user name or IP, by the configured granularity): a rejected *)
(* attemptGrant leaves every stored timestamp unchanged, a granted one     *)
(* changes only the timestamp of the requesting identifier, the first      *)
(* request of an identifier never seen before is granted, and requests of  *)
(* one identifier never change the outcome for a different identifier.     *)
(***************************************************************************)
\* The limiter with the timestamps of all identifiers but one forgotten.
C37_Alone(limiter, identifier) ==
    [limiter EXCEPT !.clients =
        [id \in Identifiers |->
            IF id = identifier THEN limiter.clients[id] ELSE Absent]]

\* The identifier of the call was seen before it.
C37_Seen(identifier) ==
    \E m \in 1..Len(proxyLog) : proxyLog[m].identifier = identifier

\* What the request that this step handles did to the limiter.
C37_Frame(call) ==
    LET id == call.identifier
        before == rateLimiter.clients
        after == rateLimiter'.clients
    IN  /\ ~call.granted =>
               \A other \in Identifiers : after[other] = before[other]
        /\ call.granted =>
               /\ after[id] = call.done
               /\ \A other \in Identifiers \ {id} : after[other] = before[other]
        /\ call.granted
               = AttemptGrant(C37_Alone(rateLimiter, id), call.connectionInfo,
                              call.at, call.done).granted

C37_Step ==
    (rateLimiter # NoLimiter /\ Len(proxyLog') = Len(proxyLog) + 1) =>
        LET call == proxyLog'[Len(proxyLog')]
        IN  /\ C37_Frame(call)
            /\ ~C37_Seen(call.identifier) => call.granted

C37_OneTimestampPerIdentifier == [][C37_Step]_vars

\* The same without the first-request part for identifiers that are names
\* of properties of Object.prototype.
C37_StepOwnKeys ==
    (rateLimiter # NoLimiter /\ Len(proxyLog') = Len(proxyLog) + 1) =>
        LET call == proxyLog'[Len(proxyLog')]
        IN  /\ C37_Frame(call)
            /\ (~C37_Seen(call.identifier)
                   /\ call.identifier \notin ObjectPrototypeKeys) => call.granted

C37_OneTimestampPerOwnIdentifier == [][C37_StepOwnKeys]_vars

====
